---- MODULE Spec2Model ----
(***************************************************************************)
(* prompt-runner: the run-orchestration and result-materialization engine. *)
(*                                                                         *)
(*   src/src/prompt_runner/utils.py         identifiers, sanitizer, option *)
(*                                          merger, run directory creation *)
(*   src/src/prompt_runner/llm_runner.py    text driver and its store      *)
(*   src/src/prompt_runner/image_runner.py  image driver and its store     *)
(*                                                                         *)
(* Three specifications share the variables below:                         *)
(*   MergeSpec  the option merger applied to every triple of option maps,  *)
(*   StoreSpec  the result-store operations called in any order,           *)
(*   Spec       one invocation of a driver (run_llm_eval / run_image_eval).*)
(*                                                                         *)
(* Strings the code inspects character by character (model names, file     *)
(* names, timestamps) are sequences of one-character strings; a path is a  *)
(* sequence of such names.                                                 *)
(***************************************************************************)
EXTENDS Integers, Sequences, FiniteSets, TLC

VARIABLES
    dirs,           \* filesystem: the set of paths that are directories
    files,          \* filesystem: regular files, path -> content
    driver,         \* "llm" (run_llm_eval), "image" (run_image_eval) or "none"
    config,         \* the driver's config argument
    prompts,        \* the driver's prompts argument
    models,         \* the driver's models argument
    filter_arg,     \* prompt_filter / mode_filter
    pc,             \* position of the driver in its body
    mi,             \* index of the current model (outer loop)
    pi,             \* index of the current prompt (inner loop)
    ident,          \* run_id, run_dir_name, created_at once generated
    backend,        \* ollama client / StableDiffusion instance in use
    model_timings,  \* model name -> elapsed seconds of its pass
    pending,        \* response of the last generation call, not yet saved
    error,          \* the exception that ended the call, or "none"
    log,            \* history of side effects, oldest first
    args,           \* arguments of the function under study (MergeSpec)
    result          \* its return value (MergeSpec)

fsVars == <<dirs, files>>
driverVars == <<driver, config, prompts, models, filter_arg, pc, mi, pi, ident,
                backend, model_timings, pending>>
fnVars == <<args, result>>
vars == <<dirs, files, driver, config, prompts, models, filter_arg, pc, mi, pi,
          ident, backend, model_timings, pending, error, log, args, result>>

-----------------------------------------------------------------------------
(* Bounds of the model.                                                    *)

\* option values range over 1..MaxOptVal
MaxOptVal == 2
\* at most MaxModels entries in the models list
MaxModels == 2
\* at most MaxPrompts entries in the prompts list
MaxPrompts == 2
\* StoreSpec makes at most MaxCalls calls
MaxCalls == 3

-----------------------------------------------------------------------------
(* Optional values and dictionaries.                                       *)

None == [some |-> FALSE]
Some(v) == [some |-> TRUE, val |-> v]

EmptyDict == [k \in {} |-> 0]

\* dict.update(other): entries of other overwrite same-keyed entries
DictUpdate(d, other) ==
    [k \in (DOMAIN d) \cup (DOMAIN other) |->
        IF k \in DOMAIN other THEN other[k] ELSE d[k]]

\* Python truthiness of an Optional[Dict]: None and {} are both falsy
Truthy(o) == o.some /\ DOMAIN o.val # {}

OptKeys == {"temperature", "seed"}
OptVals == 1..MaxOptVal
Dicts == UNION {[S -> OptVals] : S \in SUBSET OptKeys}
OptionalDicts == {None} \cup {Some(d) : d \in Dicts}

\* mutant of merge_options: the model layer is applied last
merge_options_ModelLast(global_defaults, model_options, prompt_options) ==
    LET merged0 == EmptyDict
        merged1 == IF Truthy(global_defaults)
                   THEN DictUpdate(merged0, global_defaults.val) ELSE merged0
        merged2 == IF Truthy(prompt_options)
                   THEN DictUpdate(merged1, prompt_options.val) ELSE merged1
        merged3 == IF Truthy(model_options)
                   THEN DictUpdate(merged2, model_options.val) ELSE merged2
    IN  merged3

merge_options(global_defaults, model_options, prompt_options) ==
    LET merged0 == EmptyDict
        merged1 == IF Truthy(global_defaults)
                   THEN DictUpdate(merged0, global_defaults.val) ELSE merged0
        merged2 == IF Truthy(model_options)
                   THEN DictUpdate(merged1, model_options.val) ELSE merged1
        merged3 == IF Truthy(prompt_options)
                   THEN DictUpdate(merged2, prompt_options.val) ELSE merged2
    IN  merged3

merge_image_options(global_defaults, model_options, prompt_options) ==
    LET merged0 == EmptyDict
        merged1 == IF Truthy(global_defaults)
                   THEN DictUpdate(merged0, global_defaults.val) ELSE merged0
        merged2 == IF Truthy(model_options)
                   THEN DictUpdate(merged1, model_options.val) ELSE merged1
        merged3 == IF Truthy(prompt_options)
                   THEN DictUpdate(merged2, prompt_options.val) ELSE merged2
    IN  merged3

\* mutant of merge_options_call: merged is the global defaults map itself
\* when that map is given, so the updates are written into it
merge_options_call_InPlace(global_defaults, model_options, prompt_options) ==
    [returned |-> merge_options(global_defaults, model_options, prompt_options),
     global_defaults |-> IF Truthy(global_defaults)
                         THEN Some(merge_options(global_defaults, model_options, prompt_options))
                         ELSE global_defaults,
     model_options |-> model_options,
     prompt_options |-> prompt_options]

\* a call of merge_options with the objects it can reach: the map returned
\* and the three argument maps as the call leaves them. merged = {} is a new
\* dictionary and update() is called on merged alone.
merge_options_call(global_defaults, model_options, prompt_options) ==
    [returned |-> merge_options(global_defaults, model_options, prompt_options),
     global_defaults |-> global_defaults,
     model_options |-> model_options,
     prompt_options |-> prompt_options]

\* the same for merge_image_options
merge_image_options_call(global_defaults, model_options, prompt_options) ==
    [returned |-> merge_image_options(global_defaults, model_options, prompt_options),
     global_defaults |-> global_defaults,
     model_options |-> model_options,
     prompt_options |-> prompt_options]

-----------------------------------------------------------------------------
(* Strings as character sequences.                                         *)

\* the literal strings of the source, spelled out
Chars(s) ==
    CASE s = "llm"          -> <<"l", "l", "m">>
      [] s = "image"        -> <<"i", "m", "a", "g", "e">>
      [] s = "markdown"     -> <<"m", "a", "r", "k", "d", "o", "w", "n">>
      [] s = "json"         -> <<"j", "s", "o", "n">>
      [] s = "summary.json" -> <<"s", "u", "m", "m", "a", "r", "y", ".", "j", "s", "o", "n">>
      [] s = ".json"        -> <<".", "j", "s", "o", "n">>
      [] s = ".md"          -> <<".", "m", "d">>
      [] s = ".png"         -> <<".", "p", "n", "g">>
      [] s = "__"           -> <<"_", "_">>
      [] s = "_"            -> <<"_">>
      [] s = "completion"   -> <<"c", "o", "m", "p", "l", "e", "t", "i", "o", "n">>
      [] s = "chat"         -> <<"c", "h", "a", "t">>
      [] s = "txt2img"      -> <<"t", "x", "t", "2", "i", "m", "g">>
      [] s = "img2img"      -> <<"i", "m", "g", "2", "i", "m", "g">>
      [] s = "hello"        -> <<"h", "e", "l", "l", "o">>
      [] s = "user"         -> <<"u", "s", "e", "r">>

\* mutant of ProblemChars: the asterisk is left alone
ProblemChars_NoStar == {"<", ">", ":", "\"", "/", "\\", "|", "?"}

\* the characters sanitize_fs_name replaces: < > : " / \ | ? *
ProblemChars == {"<", ">", ":", "\"", "/", "\\", "|", "?", "*"}

\* re.sub(r'[<>:"/\\|?*]', "_", name)
sanitize_fs_name(name) ==
    [i \in 1..Len(name) |-> IF name[i] \in ProblemChars THEN "_" ELSE name[i]]

-----------------------------------------------------------------------------
(* The filesystem as pathlib and open() see it. A filesystem value is a    *)
(* record [dirs, files, err, writes, faults]: err is the exception raised  *)
(* so far ("none" when none), writes lists the files opened for writing,   *)
(* in order, and faults holds the paths the operating system refuses to    *)
(* open. Every operation is skipped once err is set, as an exception skips *)
(* the rest of the function body.                                          *)

\* the root directory, which always exists
Root == <<>>

Fs(d, f) == [dirs |-> d, files |-> f, err |-> "none", writes |-> <<>>, faults |-> {}]

\* the filesystem fs on which open() fails with OSError for the paths of
\* faults (no space left, permission denied)
WithFaults(fs, faults) == [fs EXCEPT !.faults = faults]

Raise(fs, e) == [fs EXCEPT !.err = e]

\* Path.exists()
PathExists(fs, path) == path \in fs.dirs \/ path \in DOMAIN fs.files

\* a path and all its ancestors
Ancestors(path) == {SubSeq(path, 1, n) : n \in 0..Len(path)}

Parent(path) == SubSeq(path, 1, Len(path) - 1)

\* Path.mkdir(parents=..., exist_ok=...)
Mkdir(fs, path, parents, exist_ok) ==
    IF fs.err # "none" THEN fs
    ELSE IF path \in fs.dirs
         THEN IF exist_ok THEN fs ELSE Raise(fs, "FileExistsError")
    ELSE IF path \in DOMAIN fs.files THEN Raise(fs, "FileExistsError")
    ELSE IF \E a \in Ancestors(path) : a \in DOMAIN fs.files
         THEN Raise(fs, "NotADirectoryError")
    ELSE IF Parent(path) \in fs.dirs
         THEN [fs EXCEPT !.dirs = @ \cup {path}]
    ELSE IF parents THEN [fs EXCEPT !.dirs = @ \cup Ancestors(path)]
    ELSE Raise(fs, "FileNotFoundError")

\* with open(path, "w") as f: f.write(content) / json.dump(content, f)
WriteFile(fs, path, content) ==
    IF fs.err # "none" THEN fs
    ELSE IF path \in fs.dirs THEN Raise(fs, "IsADirectoryError")
    ELSE IF \E a \in Ancestors(Parent(path)) : a \in DOMAIN fs.files
         THEN Raise(fs, "NotADirectoryError")
    ELSE IF Parent(path) \notin fs.dirs THEN Raise(fs, "FileNotFoundError")
    ELSE IF path \in fs.faults THEN Raise(fs, "OSError")
    ELSE [fs EXCEPT
            !.files = [q \in (DOMAIN @) \cup {path} |->
                          IF q = path THEN content ELSE @[q]],
            !.writes = Append(@, path)]

-----------------------------------------------------------------------------
(* The result store.                                                       *)

\* mutant of create_result_structure: no existence check, mkdir(exist_ok=True)
create_result_structure_Reuse(fs, run_dir_name, results_dir) ==
    LET results_path == results_dir
        run_path == Append(results_path, run_dir_name)
    IN  Mkdir(fs, run_path, TRUE, TRUE)

create_result_structure(fs, run_dir_name, results_dir) ==
    LET results_path == results_dir
        run_path == Append(results_path, run_dir_name)
    IN  IF PathExists(fs, run_path)
        THEN Raise(fs, "FileExistsError")
        ELSE Mkdir(fs, run_path, TRUE, FALSE)

\* mutant of SummaryBody: the two counts are swapped
SummaryBody_SwappedCounts(prompts_, models_, model_timings_) ==
    LET prompt_ids == [i \in 1..Len(prompts_) |-> prompts_[i].id]
        model_names == [i \in 1..Len(models_) |-> models_[i].name]
    IN  [prompt_count |-> Len(models_),
         model_count |-> Len(prompts_),
         prompts |-> prompt_ids,
         models |-> model_names,
         model_timings |-> model_timings_]

\* the fields both summaries store under their "llm" / "image" key
SummaryBody(prompts_, models_, model_timings_) ==
    LET prompt_ids == [i \in 1..Len(prompts_) |-> prompts_[i].id]
        model_names == [i \in 1..Len(models_) |-> models_[i].name]
    IN  [prompt_count |-> Len(prompts_),
         model_count |-> Len(models_),
         prompts |-> prompt_ids,
         models |-> model_names,
         model_timings |-> model_timings_]

save_llm_summary(fs, run_id, run_dir_name, created_at, results_dir, prompts_, models_, model_timings_) ==
    LET results_path == results_dir
        run_path == Append(results_path, run_dir_name)
        summary_path == Append(run_path, Chars("summary.json"))
        summary == [run_id |-> run_id,
                    created_at |-> created_at,
                    llm |-> SummaryBody(prompts_, models_, model_timings_)]
    IN  IF ~PathExists(fs, run_path)
        THEN Raise(fs, "FileNotFoundError")
        ELSE WriteFile(fs, summary_path, summary)

save_image_summary(fs, run_id, run_dir_name, created_at, results_dir, prompts_, models_, model_timings_) ==
    LET results_path == results_dir
        run_path == Append(results_path, run_dir_name)
        summary_path == Append(run_path, Chars("summary.json"))
        summary == [run_id |-> run_id,
                    created_at |-> created_at,
                    image |-> SummaryBody(prompts_, models_, model_timings_)]
    IN  IF ~PathExists(fs, run_path)
        THEN Raise(fs, "FileNotFoundError")
        ELSE WriteFile(fs, summary_path, summary)

\* f"{sanitized_model}__{mode}.json" and f"{sanitized_model}__{mode}.md"
LlmFileName(model_name, mode, ext) ==
    sanitize_fs_name(model_name) \o Chars("__") \o Chars(mode) \o Chars(ext)

\* mutant of save_llm_result: no existence check, the run directory is made
save_llm_result_NoCheck(fs, run_dir_name, results_dir, prompt_id, model_name, mode, result_data) ==
    LET results_path == results_dir
        run_path == Append(results_path, run_dir_name)
        prompt_path == run_path \o <<Chars("llm"), prompt_id>>
        fs1 == Mkdir(fs, prompt_path, TRUE, TRUE)
        result_file == Append(prompt_path, LlmFileName(model_name, mode, ".json"))
        fs2 == WriteFile(fs1, result_file, result_data)
        markdown_path == Append(prompt_path, Chars("markdown"))
        fs3 == Mkdir(fs2, markdown_path, FALSE, TRUE)
        markdown_file == Append(markdown_path, LlmFileName(model_name, mode, ".md"))
    IN  WriteFile(fs3, markdown_file, result_data.output.text)

save_llm_result(fs, run_dir_name, results_dir, prompt_id, model_name, mode, result_data) ==
    LET results_path == results_dir
        run_path == Append(results_path, run_dir_name)
        prompt_path == run_path \o <<Chars("llm"), prompt_id>>
        fs1 == Mkdir(fs, prompt_path, TRUE, TRUE)
        result_file == Append(prompt_path, LlmFileName(model_name, mode, ".json"))
        fs2 == WriteFile(fs1, result_file, result_data)
        markdown_path == Append(prompt_path, Chars("markdown"))
        fs3 == Mkdir(fs2, markdown_path, FALSE, TRUE)
        markdown_file == Append(markdown_path, LlmFileName(model_name, mode, ".md"))
    IN  IF ~PathExists(fs, run_path)
        THEN Raise(fs, "FileNotFoundError")
        ELSE WriteFile(fs3, markdown_file, result_data.output.text)

(* Image results. *)

\* prompt_dir.mkdir(parents=True, exist_ok=True);
\* prompt_json_dir.mkdir(parents=True, exist_ok=True)
make_prompt_dirs(fs, run_path, prompt_id) ==
    LET prompt_dir == run_path \o <<Chars("image"), prompt_id>>
        prompt_json_dir == Append(prompt_dir, Chars("json"))
        fs1 == Mkdir(fs, prompt_dir, TRUE, TRUE)
    IN  Mkdir(fs1, prompt_json_dir, TRUE, TRUE)

Digits == <<"0", "1", "2", "3", "4", "5", "6", "7", "8", "9">>

\* str(i) for a natural number i
RECURSIVE DecimalChars(_)
DecimalChars(i) ==
    IF i < Len(Digits) THEN <<Digits[i + 1]>>
    ELSE DecimalChars(i \div Len(Digits)) \o <<Digits[(i % Len(Digits)) + 1]>>

\* mutant of ImageFileName: the index starts at 1
ImageFileName_OneBased(model_name, i, ext) ==
    sanitize_fs_name(model_name) \o Chars("_") \o DecimalChars(i + 1) \o Chars(ext)

\* f"{sanitized_model_name}_{i}.png" and f"{sanitized_model_name}_{i}.json"
ImageFileName(model_name, i, ext) ==
    sanitize_fs_name(model_name) \o Chars("_") \o DecimalChars(i) \o Chars(ext)

\* for i, img in enumerate(images): the images from position n on are saved,
\* each as its PNG and then its metadata JSON
RECURSIVE SaveImages(_, _, _, _, _, _)
SaveImages(fs, images, n, prompt_dir, model_name, metadata) ==
    IF n > Len(images) THEN fs
    ELSE LET i == n - 1
             img_path == Append(prompt_dir, ImageFileName(model_name, i, ".png"))
             json_path == prompt_dir \o <<Chars("json"), ImageFileName(model_name, i, ".json")>>
             fs1 == WriteFile(fs, img_path, images[n])
             fs2 == WriteFile(fs1, json_path, metadata)
         IN  SaveImages(fs2, images, n + 1, prompt_dir, model_name, metadata)

\* the persistence of one image result, as the image driver does it: the
\* prompt directories are made, then every image of the batch is saved
persist_image_result(fs, run_path, prompt_id, model_name, images, metadata) ==
    LET prompt_dir == run_path \o <<Chars("image"), prompt_id>>
    IN  SaveImages(make_prompt_dirs(fs, run_path, prompt_id), images, 1, prompt_dir, model_name, metadata)

-----------------------------------------------------------------------------
(* Run identifiers. An instant is the UTC time read by datetime.now, as    *)
(* its date, hour, minute and second fields already zero-padded; suffix is *)
(* the value of secrets.token_hex(3).                                      *)

\* mutant of FormatCreatedAt: the timestamp stops at the minute
FormatCreatedAt_Minutes(now) ==
    now.ymd \o <<"T">> \o now.hh \o <<":">> \o now.mm \o <<"Z">>

\* now.strftime("%Y-%m-%dT%H:%M:%SZ")
FormatCreatedAt(now) ==
    now.ymd \o <<"T">> \o now.hh \o <<":">> \o now.mm \o <<":">> \o now.ss \o <<"Z">>

\* mutant of FormatDirStamp: the time fields keep their colons
FormatDirStamp_Colons(now) ==
    now.ymd \o <<"_">> \o now.hh \o <<":">> \o now.mm \o <<":">> \o now.ss \o <<"Z">>

\* now.strftime("%Y-%m-%d_%H-%M-%SZ")
FormatDirStamp(now) ==
    now.ymd \o <<"_">> \o now.hh \o <<"-">> \o now.mm \o <<"-">> \o now.ss \o <<"Z">>

generate_run_identifiers(now, suffix) ==
    LET created_at == FormatCreatedAt(now)
        run_id == created_at \o <<"-">> \o suffix
        run_dir_name == FormatDirStamp(now) \o <<"-">> \o suffix
    IN  [run_id |-> run_id, run_dir_name |-> run_dir_name, created_at |-> created_at]

Instants ==
    {[ymd |-> <<"2", "0", "2", "6", "-", "0", "1", "-", "0", "8">>,
      hh |-> <<"1", "2">>, mm |-> <<"3", "4">>, ss |-> <<"5", "6">>]}

HexDigits == <<"0", "1", "2", "3", "4", "5", "6", "7", "8", "9", "a", "b", "c", "d", "e", "f">>

\* secrets.token_hex(n) on the n random bytes drawn: two lowercase hex
\* digits per byte
token_hex(bytes) ==
    LET RECURSIVE hex(_)
        hex(n) == IF n > Len(bytes) THEN <<>>
                  ELSE <<HexDigits[(bytes[n] \div Len(HexDigits)) + 1], HexDigits[(bytes[n] % Len(HexDigits)) + 1]>> \o hex(n + 1)
    IN  hex(1)

\* the three-byte draws of secrets.token_hex(3) considered: a3f2c1, 00beef
EntropyDraws == {<<163, 242, 193>>, <<0, 190, 239>>}

Suffixes == {token_hex(b) : b \in EntropyDraws}

Identities == {generate_run_identifiers(n, x) : n \in Instants, x \in Suffixes}

-----------------------------------------------------------------------------
(* Inputs of the drivers: small pools of prompts, models and filters.      *)
(* A dictionary key that may be absent is an optional field (None when the *)
(* key is absent).                                                         *)

ResultsDir == <<<<"r", "e", "s">>>>

P1 == <<"p", "1">>
P2 == <<"p", "2">>
P3 == <<"p", "3">>
P4 == <<"p", "4">>

NameSlash == <<"a", "/", "b">>
NameColon == <<"a", ":", "b">>
NamePlain == <<"m">>

UserMessages == <<[role |-> "user", content |-> "hello"]>>

\* text prompts: completion form, chat form, neither field, both fields
LlmPromptPool ==
    {[id |-> P1, prompt |-> Some("hello"), messages |-> None,
      options |-> Some([k \in {"seed"} |-> 1])],
     [id |-> P2, prompt |-> None, messages |-> Some(UserMessages),
      options |-> None],
     [id |-> P3, prompt |-> None, messages |-> None, options |-> None],
     [id |-> P4, prompt |-> Some("hello"), messages |-> Some(UserMessages),
      options |-> None]}

LlmModelPool ==
    {[name |-> NameSlash, options |-> None],
     [name |-> NameColon, options |-> Some([k \in {"temperature"} |-> 2])]}

LlmFilters == {"completion", "chat", "all", "both"}

LlmConfigs ==
    {[results_dir |-> ResultsDir,
      llm_generation_defaults |-> Some([k \in {"temperature"} |-> 1])]}

\* image prompts: one of each mode; options is a required dictionary
ImagePromptPool ==
    {[id |-> P1, mode |-> "txt2img", options |-> [k \in {"seed", "batch_count"} |-> 2]],
     [id |-> P2, mode |-> "img2img", options |-> [k \in {"seed"} |-> 2]]}

\* image models: the last one lacks the init_options field
ImageModelPool ==
    {[name |-> NameSlash, init_options |-> Some([k \in {"model_path"} |-> 1]),
      generation_options |-> Some([k \in {"temperature"} |-> 2])],
     [name |-> NameColon, init_options |-> Some([k \in {"model_path"} |-> 2]),
      generation_options |-> None],
     [name |-> NamePlain, init_options |-> None, generation_options |-> None]}

ImageFilters == {"txt2img", "img2img", "all", "both"}

ImageConfigs ==
    {[results_dir |-> ResultsDir,
      image_generation_defaults |-> Some([k \in {"temperature"} |-> 1])]}

\* all lists of at most n entries of S
ListsUpTo(S, n) == UNION {[1..k -> S] : k \in 0..n}

\* the filesystem before the run: empty, or holding the run directory that
\* one of the identities names (a colliding earlier run)
InitialDirs ==
    {{Root},
     {Root, ResultsDir,
      Append(ResultsDir, (CHOOSE id \in Identities : TRUE).run_dir_name)}}

-----------------------------------------------------------------------------
(* The driver at rest and an empty filesystem, for the specifications that *)
(* study one function or the store alone.                                  *)

DriverIdle ==
    /\ driver = "none"
    /\ config = None
    /\ prompts = <<>>
    /\ models = <<>>
    /\ filter_arg = "all"
    /\ pc = "idle"
    /\ mi = 0
    /\ pi = 0
    /\ ident = None
    /\ backend = None
    /\ model_timings = EmptyDict
    /\ pending = None

-----------------------------------------------------------------------------
(* MergeSpec: merge_options / merge_image_options on every triple of       *)
(* optional option maps.                                                   *)

MergeInit ==
    /\ DriverIdle
    /\ dirs = {Root}
    /\ files = EmptyDict
    /\ error = "none"
    /\ log = <<>>
    /\ args \in [g : OptionalDicts, m : OptionalDicts, p : OptionalDicts]
    /\ result = None

CallMergeOptions ==
    /\ result = None
    /\ result' = Some([fn |-> "merge_options",
                       val |-> merge_options(args.g, args.m, args.p)])
    /\ UNCHANGED <<fsVars, driverVars, error, log, args>>

CallMergeImageOptions ==
    /\ result = None
    /\ result' = Some([fn |-> "merge_image_options",
                       val |-> merge_image_options(args.g, args.m, args.p)])
    /\ UNCHANGED <<fsVars, driverVars, error, log, args>>

MergeNext == CallMergeOptions \/ CallMergeImageOptions

MergeSpec == MergeInit /\ [][MergeNext]_vars

\* key set of an optional layer: an absent (None) layer counts as empty
LayerKeys(o) == IF o.some THEN DOMAIN o.val ELSE {}

\* value of key k in the highest-priority layer that contains it
TopLayerValue(k) ==
    IF k \in LayerKeys(args.p) THEN args.p.val[k]
    ELSE IF k \in LayerKeys(args.m) THEN args.m.val[k]
    ELSE args.g.val[k]

\* C1: for every triple of optional option maps (None counting as empty),
\* merge_options returns a map whose key set is exactly the union of the
\* three key sets and whose value at each key is that of the highest-priority
\* layer containing the key (prompt over model over global).
C1_MergeUnionPriority ==
    (result.some /\ result.val.fn = "merge_options") =>
        /\ DOMAIN result.val.val =
              LayerKeys(args.g) \cup LayerKeys(args.m) \cup LayerKeys(args.p)
        /\ \A k \in DOMAIN result.val.val : result.val.val[k] = TopLayerValue(k)

\* a merge where model and prompt disagree on one key, global alone holds
\* another, and the result carries both
C1_Witness ==
    /\ result.some /\ result.val.fn = "merge_options"
    /\ args.g = Some([k \in {"temperature", "seed"} |-> 1])
    /\ args.m = Some([k \in {"temperature"} |-> 2])
    /\ args.p = Some([k \in {"temperature"} |-> 1])
    /\ result.val.val = [k \in {"temperature", "seed"} |-> 1]

-----------------------------------------------------------------------------
(* StoreSpec: the result-store operations called in any order, with any    *)
(* arguments, on a filesystem that starts without run directories.         *)

StoreInit ==
    /\ DriverIdle
    /\ dirs \in {{Root}, {Root, ResultsDir}}
    /\ files = EmptyDict
    /\ error = "none"
    /\ log = <<>>
    /\ args = None
    /\ result = None

\* one call of a store operation: op on run directory run_path took the
\* filesystem to fs2
StoreCall(op, run_path, fs2) ==
    /\ Len(log) < MaxCalls
    /\ dirs' = fs2.dirs
    /\ files' = fs2.files
    /\ error' = fs2.err
    /\ log' = Append(log,
           [op |-> op,
            run_path |-> run_path,
            existed |-> PathExists(Fs(dirs, files), run_path),
            err |-> fs2.err,
            changed |-> (fs2.dirs # dirs \/ fs2.writes # <<>>),
            writes |-> fs2.writes])
    /\ UNCHANGED <<driverVars, fnVars>>

StoreResultData(id, prompt_id, model_name, mode) ==
    [run_id |-> id.run_id,
     created_at |-> id.created_at,
     prompt_id |-> prompt_id,
     model |-> model_name,
     mode |-> mode,
     output |-> [text |-> "hi"],
     metrics |-> None]

StorePrompts == <<CHOOSE p \in LlmPromptPool : p.id = P1>>
StoreModels == <<CHOOSE m \in LlmModelPool : m.name = NameSlash>>
StoreTimings == [n \in {NameSlash} |-> "elapsed"]

CallCreateResultStructure ==
    \E id \in Identities :
        StoreCall("create_result_structure",
                  Append(ResultsDir, id.run_dir_name),
                  create_result_structure(Fs(dirs, files), id.run_dir_name,
                                          ResultsDir))

\* the markdown file of a result
LlmMarkdownFile(run_path, prompt_id, model_name, mode) ==
    run_path \o <<Chars("llm"), prompt_id, Chars("markdown"),
                  LlmFileName(model_name, mode, ".md")>>

\* save_llm_result; open() may fail on the markdown file
CallSaveLlmResult ==
    \E id \in Identities, model_name \in {NameSlash, NameColon},
       mode \in {"completion", "chat"}, refused \in BOOLEAN :
        LET run_path == Append(ResultsDir, id.run_dir_name)
            faults == IF refused
                      THEN {LlmMarkdownFile(run_path, P1, model_name, mode)}
                      ELSE {}
        IN  StoreCall("save_llm_result",
                      run_path,
                      save_llm_result(WithFaults(Fs(dirs, files), faults),
                                      id.run_dir_name, ResultsDir,
                                      P1, model_name, mode,
                                      StoreResultData(id, P1, model_name, mode)))

CallSaveLlmSummary ==
    \E id \in Identities :
        StoreCall("save_llm_summary",
                  Append(ResultsDir, id.run_dir_name),
                  save_llm_summary(Fs(dirs, files), id.run_id, id.run_dir_name,
                                   id.created_at, ResultsDir, StorePrompts,
                                   StoreModels, StoreTimings))

CallSaveImageSummary ==
    \E id \in Identities :
        StoreCall("save_image_summary",
                  Append(ResultsDir, id.run_dir_name),
                  save_image_summary(Fs(dirs, files), id.run_id, id.run_dir_name,
                                     id.created_at, ResultsDir, StorePrompts,
                                     StoreModels, StoreTimings))

\* the image driver's persistence of one returned batch (the prompt
\* directories, then each image and its metadata), on any filesystem
CallPersistImageResult ==
    \E id \in Identities, model_name \in {NameSlash, NameColon} :
        LET metadata == [run_id |-> id.run_id,
                         created_at |-> id.created_at,
                         mode |-> "txt2img",
                         model |-> [name |-> model_name],
                         prompt |-> [id |-> P1],
                         generation_options |-> [k \in {"seed"} |-> 1]]
        IN  StoreCall("persist_image_result",
                      Append(ResultsDir, id.run_dir_name),
                      persist_image_result(Fs(dirs, files), Append(ResultsDir, id.run_dir_name), P1, model_name, <<[pixels |-> 1]>>, metadata))

StoreNext ==
    \/ CallCreateResultStructure
    \/ CallSaveLlmResult
    \/ CallSaveLlmSummary
    \/ CallSaveImageSummary
    \/ CallPersistImageResult

StoreSpec == StoreInit /\ [][StoreNext]_vars

CreateCalls == {i \in 1..Len(log) : log[i].op = "create_result_structure"}

\* C2: the first create_result_structure call on a path that does not exist
\* succeeds and the returned path is then a directory; every later call with
\* the same arguments fails with FileExistsError and leaves the filesystem
\* unchanged; so a run directory is successfully created at most once.
C2_CreateOnce ==
    /\ \A i \in CreateCalls :
          ~log[i].existed => (log[i].err = "none" /\ log[i].run_path \in dirs)
    /\ \A i \in CreateCalls, j \in CreateCalls :
          (i < j /\ log[i].run_path = log[j].run_path /\ log[i].err = "none")
              => (log[j].err = "FileExistsError" /\ ~log[j].changed)
    /\ \A i \in CreateCalls, j \in CreateCalls :
          (log[i].run_path = log[j].run_path
              /\ log[i].err = "none" /\ log[j].err = "none") => i = j

\* the same run directory created, then requested again and refused
C2_Witness ==
    /\ Len(log) >= 2
    /\ log[1].op = "create_result_structure" /\ log[1].err = "none"
    /\ log[2].op = "create_result_structure"
    /\ log[2].run_path = log[1].run_path
    /\ log[2].err = "FileExistsError"
    /\ log[1].run_path \in dirs

SaveOps == {"save_llm_result", "save_llm_summary", "save_image_summary"}

\* C10: save_llm_result, save_llm_summary and save_image_summary, called
\* when the run directory results_dir/run_dir_name does not exist, fail with
\* FileNotFoundError and create no directory and no file.
C10_SaveNeedsRunDir ==
    \A i \in 1..Len(log) :
        (log[i].op \in SaveOps /\ ~log[i].existed)
            => (log[i].err = "FileNotFoundError" /\ ~log[i].changed)

\* each of the three operations was refused on a missing run directory, and
\* the filesystem holds no file
C10_Witness ==
    /\ Len(log) = 3
    /\ {log[i].op : i \in 1..3} = SaveOps
    /\ \A i \in 1..3 : ~log[i].existed /\ log[i].err = "FileNotFoundError"
    /\ DOMAIN files = {}

PersistCalls == {i \in 1..Len(log) : log[i].op = "persist_image_result"}

\* C11: persisting an image result when the run directory is absent fails
\* and does not create the run directory.
C11_ImagePersistNeedsRunDir ==
    \A i \in PersistCalls :
        ~log[i].existed => (log[i].err # "none" /\ ~log[i].changed)

-----------------------------------------------------------------------------
(* Spec: one invocation of run_llm_eval or run_image_eval.                 *)
(*                                                                         *)
(* pc is the driver's position: "start", "identify", "create", "client",   *)
(* "models" (head of the model loop), "init_sd", "prompts" (head of the    *)
(* prompt loop), "save", then "done" (returned) or "raised" (an exception  *)
(* left the function). mi and pi are the indices of the model and prompt   *)
(* last taken from their lists. log records every side effect.             *)

Init ==
    /\ driver \in {"llm", "image"}
    /\ config \in (IF driver = "llm" THEN LlmConfigs ELSE ImageConfigs)
    /\ prompts \in ListsUpTo(IF driver = "llm" THEN LlmPromptPool
                             ELSE ImagePromptPool, MaxPrompts)
    /\ models \in ListsUpTo(IF driver = "llm" THEN LlmModelPool
                            ELSE ImageModelPool, MaxModels)
    /\ filter_arg \in (IF driver = "llm" THEN LlmFilters ELSE ImageFilters)
    /\ dirs \in InitialDirs
    /\ files = EmptyDict
    /\ pc = "start"
    /\ mi = 0
    /\ pi = 0
    /\ ident = None
    /\ backend = None
    /\ model_timings = EmptyDict
    /\ pending = None
    /\ error = "none"
    /\ log = <<>>
    /\ args = None
    /\ result = None

\* a side effect of the driver, made for model m and prompt p (0 and 0
\* outside the loops)
Event(op, m, p, path, ok, detail) ==
    [op |-> op, mi |-> m, pi |-> p, path |-> path, ok |-> ok, detail |-> detail]

\* the write events of a store operation that opened the files fs.writes
WriteEvents(fs, m, p) ==
    [i \in 1..Len(fs.writes) |->
        Event("write", m, p, fs.writes[i], TRUE, fs.files[fs.writes[i]])]

\* an exception leaves the driver: nothing catches it
RaiseError(e) ==
    /\ pc' = "raised"
    /\ error' = e

\* prompt_filter not in ("completion", "chat", "all") /
\* mode_filter not in ("txt2img", "img2img", "all")
FilterValid(d, f) ==
    IF d = "llm" THEN f \in {"completion", "chat", "all"}
    ELSE f \in {"txt2img", "img2img", "all"}

\* mutant of ValidateFilter: the filter is checked after the run directory
\* has been made
ValidateFilter_Late ==
    /\ pc = "start"
    /\ LET id == CHOOSE x \in Identities : TRUE
           fs2 == Mkdir(Fs(dirs, files), Append(config.results_dir, id.run_dir_name), TRUE, TRUE)
       IN  IF FilterValid(driver, filter_arg)
           THEN /\ pc' = "identify"
                /\ UNCHANGED <<dirs, ident, error, log>>
           ELSE /\ RaiseError("ValueError: invalid filter")
                /\ ident' = Some(id)
                /\ dirs' = fs2.dirs
                /\ log' = log \o <<Event("generate_run_identifiers", mi, pi, <<>>, TRUE, id),
                                   Event("mkdir", mi, pi, Append(config.results_dir, id.run_dir_name), TRUE, None)>>
    /\ UNCHANGED <<files, driver, config, prompts, models, filter_arg, mi, pi,
                   backend, model_timings, pending, fnVars>>

\* the first statement of both drivers
ValidateFilter ==
    /\ pc = "start"
    /\ IF FilterValid(driver, filter_arg)
       THEN pc' = "identify" /\ UNCHANGED error
       ELSE RaiseError("ValueError: invalid filter")
    /\ UNCHANGED <<fsVars, driver, config, prompts, models, filter_arg, mi, pi,
                   ident, backend, model_timings, pending, log, fnVars>>

\* mutant of GenerateIdentifiers: the identity is drawn again when the run
\* summary is due
GenerateIdentifiers_Redraw ==
    /\ pc = "identify" \/ (pc = "models" /\ mi = Len(models) /\ ident.some)
    /\ \E now \in Instants, suffix \in Suffixes :
          LET id == generate_run_identifiers(now, suffix)
          IN  /\ ident' = Some([id EXCEPT !.run_dir_name =
                                   IF ident.some THEN ident.val.run_dir_name ELSE @])
              /\ log' = IF ident.some THEN log
                        ELSE Append(log, Event("generate_run_identifiers", mi, pi, <<>>, TRUE, id))
    /\ pc' = IF pc = "identify" THEN "create" ELSE pc
    /\ UNCHANGED <<fsVars, driver, config, prompts, models, filter_arg, mi, pi,
                   backend, model_timings, pending, error, fnVars>>

\* run_id, run_dir_name, created_at = generate_run_identifiers()
GenerateIdentifiers ==
    /\ pc = "identify"
    /\ \E now \in Instants, suffix \in Suffixes :
          LET id == generate_run_identifiers(now, suffix)
          IN  /\ ident' = Some(id)
              /\ log' = Append(log, Event("generate_run_identifiers", mi, pi, <<>>, TRUE, id))
    /\ pc' = "create"
    /\ UNCHANGED <<fsVars, driver, config, prompts, models, filter_arg, mi, pi,
                   backend, model_timings, pending, error, fnVars>>

\* create_result_structure(run_dir_name, results_dir)
CreateStructure ==
    /\ pc = "create"
    /\ LET results_dir == config.results_dir
           run_path == Append(results_dir, ident.val.run_dir_name)
           fs2 == create_result_structure(Fs(dirs, files), ident.val.run_dir_name, results_dir)
       IN  IF fs2.err # "none"
           THEN /\ RaiseError(fs2.err)
                /\ UNCHANGED <<dirs, log>>
           ELSE /\ dirs' = fs2.dirs
                /\ log' = Append(log, Event("mkdir", mi, pi, run_path, TRUE, None))
                /\ pc' = IF driver = "llm" THEN "client" ELSE "models"
                /\ UNCHANGED error
    /\ UNCHANGED <<files, driver, config, prompts, models, filter_arg, mi, pi,
                   ident, backend, model_timings, pending, fnVars>>

\* mutant of PropagateBackendError: the error is swallowed and the loop
\* goes on with the next prompt
PropagateBackendError_Swallow ==
    /\ pc' = (IF pc = "client" THEN "models" ELSE "prompts")
    /\ UNCHANGED error

\* a failing backend call sits in no try block: its exception leaves the
\* driver
PropagateBackendError == RaiseError("BackendError")

\* client = ollama.Client()
LlmInitClient ==
    /\ pc = "client"
    /\ \E ok \in BOOLEAN :
          /\ log' = Append(log, Event("construct", mi, pi, <<>>, ok, None))
          /\ IF ok
             THEN /\ backend' = Some([client |-> "ollama.Client"])
                  /\ pc' = "models"
                  /\ UNCHANGED error
             ELSE /\ PropagateBackendError
                  /\ UNCHANGED backend
    /\ UNCHANGED <<fsVars, driver, config, prompts, models, filter_arg, mi, pi,
                   ident, model_timings, pending, fnVars>>

\* for model_dict in models: the next model is taken and its timer started
StartModel ==
    /\ pc = "models"
    /\ mi < Len(models)
    /\ mi' = mi + 1
    /\ pi' = 0
    /\ pc' = IF driver = "llm" THEN "prompts" ELSE "init_sd"
    /\ UNCHANGED <<fsVars, driver, config, prompts, models, filter_arg, ident,
                   backend, model_timings, pending, error, log, fnVars>>

\* mutant of EndModel: the prompt loop of a model may end after any prompt
EndModel_Early ==
    /\ pc = "prompts"
    /\ pi >= 1 \/ pi = Len(prompts)
    /\ model_timings' = DictUpdate(model_timings, [n \in {models[mi].name} |-> "elapsed"])
    /\ log' = Append(log, Event("timing", mi, pi, <<>>, TRUE, None))
    /\ pc' = "models"
    /\ UNCHANGED <<fsVars, driver, config, prompts, models, filter_arg, mi, pi,
                   ident, backend, pending, error, fnVars>>

\* model_timings[model_name] = round(time.time() - start_time, 3), once the
\* prompt loop of the model is exhausted
EndModel ==
    /\ pc = "prompts"
    /\ pi = Len(prompts)
    /\ model_timings' = DictUpdate(model_timings, [n \in {models[mi].name} |-> "elapsed"])
    /\ log' = Append(log, Event("timing", mi, pi, <<>>, TRUE, None))
    /\ pc' = "models"
    /\ UNCHANGED <<fsVars, driver, config, prompts, models, filter_arg, mi, pi,
                   ident, backend, pending, error, fnVars>>

-----------------------------------------------------------------------------
(* The text driver's prompt loop.                                          *)

\* mutant of LlmClassify: the two filter tests look at the wrong field
LlmClassify_Swapped(prompt_filter, prompt_dict) ==
    LET is_completion_prompt == prompt_dict.prompt.some
        is_chat_prompt == prompt_dict.messages.some
    IN  IF prompt_filter = "completion" /\ ~is_chat_prompt THEN "skip"
        ELSE IF prompt_filter = "chat" /\ ~is_completion_prompt THEN "skip"
        ELSE IF ~is_completion_prompt /\ ~is_chat_prompt THEN "invalid"
        ELSE IF is_completion_prompt THEN "completion"
        ELSE "chat"

\* mutant of LlmClassify: the structure check comes before the filter
LlmClassify_ValidateFirst(prompt_filter, prompt_dict) ==
    LET is_completion_prompt == prompt_dict.prompt.some
        is_chat_prompt == prompt_dict.messages.some
    IN  IF ~is_completion_prompt /\ ~is_chat_prompt THEN "invalid"
        ELSE IF prompt_filter = "completion" /\ ~is_completion_prompt THEN "skip"
        ELSE IF prompt_filter = "chat" /\ ~is_chat_prompt THEN "skip"
        ELSE IF is_completion_prompt THEN "completion"
        ELSE "chat"

\* what the loop body does with a prompt: "skip" (continue), "invalid"
\* (raise ValueError), or run it in "completion" or "chat" mode
LlmClassify(prompt_filter, prompt_dict) ==
    LET is_completion_prompt == prompt_dict.prompt.some
        is_chat_prompt == prompt_dict.messages.some
    IN  IF prompt_filter = "completion" /\ ~is_completion_prompt THEN "skip"
        ELSE IF prompt_filter = "chat" /\ ~is_chat_prompt THEN "skip"
        ELSE IF ~is_completion_prompt /\ ~is_chat_prompt THEN "invalid"
        ELSE IF is_completion_prompt THEN "completion"
        ELSE "chat"

\* the message of the ValueError raised for a prompt with neither field
PromptError == "ValueError: prompt must have either 'prompt' or 'messages'"

\* the text a backend answers with
LlmTexts == {"hi"}

\* response.get(key): None when the key is absent (or holds None)
Get(response, key) == response[key]

\* mutant of TotalTokens: an absent count is taken as zero
TotalTokens_ZeroFill(input_tokens, output_tokens) ==
    Some((IF input_tokens.some THEN input_tokens.val ELSE 0) + (IF output_tokens.some THEN output_tokens.val ELSE 0))

\* total_tokens = None; if input_tokens is not None and output_tokens is
\* not None: total_tokens = input_tokens + output_tokens
TotalTokens(input_tokens, output_tokens) ==
    IF input_tokens.some /\ output_tokens.some
    THEN Some(input_tokens.val + output_tokens.val)
    ELSE None

\* the integer nearest to num / den (the inputs used here are never halfway
\* between two integers)
RoundDiv(num, den) == (num + den \div 2) \div den

\* seconds and tokens per second are held in thousandths, the unit that
\* round(x, 3) rounds to: one thousandth of a second is NanosPerMilli
\* nanoseconds
NanosPerMilli == 1000000
ThousandthsPerUnit == 1000

\* mutant of SecondsOf: an absent duration is reported as zero seconds
SecondsOf_ZeroFill(duration) ==
    IF duration.some THEN Some(RoundDiv(duration.val, NanosPerMilli)) ELSE Some(0)

\* x_seconds = None; if response.get(k) is not None:
\* x_seconds = round(response[k] / 1e9, 3). Seconds are held in thousandths.
SecondsOf(duration) ==
    IF duration.some THEN Some(RoundDiv(duration.val, NanosPerMilli)) ELSE None

\* output_tokens_per_second: round(output_tokens / output_seconds, 3) when
\* both are present and output_seconds > 0, else None; in thousandths
OutputTokensPerSecond(output_tokens, output_seconds) ==
    IF output_tokens.some /\ output_seconds.some /\ output_seconds.val > 0
    THEN Some(RoundDiv(output_tokens.val * ThousandthsPerUnit * ThousandthsPerUnit, output_seconds.val))
    ELSE None

\* generate_response_completion on the answer of client.generate
generate_response_completion(response) ==
    LET input_tokens == Get(response, "prompt_eval_count")
        output_tokens == Get(response, "eval_count")
        total_tokens == TotalTokens(input_tokens, output_tokens)
        load_seconds == SecondsOf(Get(response, "load_duration"))
        input_seconds == SecondsOf(Get(response, "prompt_eval_duration"))
        output_seconds == SecondsOf(Get(response, "eval_duration"))
        total_seconds == SecondsOf(Get(response, "total_duration"))
        output_tokens_per_second == OutputTokensPerSecond(output_tokens, output_seconds)
    IN  [output |-> [text |-> response.response],
         metrics |-> [done_reason |-> Get(response, "done_reason"),
                      input_tokens |-> input_tokens,
                      output_tokens |-> output_tokens,
                      total_tokens |-> total_tokens,
                      load_seconds |-> load_seconds,
                      input_seconds |-> input_seconds,
                      output_seconds |-> output_seconds,
                      total_seconds |-> total_seconds,
                      output_tokens_per_second |-> output_tokens_per_second]]

\* mutant of generate_response_chat: total_seconds is never reported
generate_response_chat_NoTotalSeconds(response) ==
    LET answer == [k \in (DOMAIN response \ {"message"}) \cup {"response"} |->
                      IF k = "response" THEN response.message.content ELSE response[k]]
    IN  [generate_response_completion(answer) EXCEPT !.metrics.total_seconds = None]

\* generate_response_chat on the answer of client.chat
generate_response_chat(response) ==
    LET input_tokens == Get(response, "prompt_eval_count")
        output_tokens == Get(response, "eval_count")
        total_tokens == TotalTokens(input_tokens, output_tokens)
        load_seconds == SecondsOf(Get(response, "load_duration"))
        input_seconds == SecondsOf(Get(response, "prompt_eval_duration"))
        output_seconds == SecondsOf(Get(response, "eval_duration"))
        total_seconds == SecondsOf(Get(response, "total_duration"))
        output_tokens_per_second == OutputTokensPerSecond(output_tokens, output_seconds)
    IN  [output |-> [text |-> response.message.content],
         metrics |-> [done_reason |-> Get(response, "done_reason"),
                      input_tokens |-> input_tokens,
                      output_tokens |-> output_tokens,
                      total_tokens |-> total_tokens,
                      load_seconds |-> load_seconds,
                      input_seconds |-> input_seconds,
                      output_seconds |-> output_seconds,
                      total_seconds |-> total_seconds,
                      output_tokens_per_second |-> output_tokens_per_second]]

\* the optional fields of a backend answer, each None when absent
MetricFields(done_reason, prompt_eval_count, eval_count, load_duration, prompt_eval_duration, eval_duration, total_duration) ==
    [done_reason |-> done_reason, prompt_eval_count |-> prompt_eval_count,
     eval_count |-> eval_count, load_duration |-> load_duration,
     prompt_eval_duration |-> prompt_eval_duration,
     eval_duration |-> eval_duration, total_duration |-> total_duration]

\* the answer of client.generate carrying text and the optional fields f
CompletionResponse(text, f) ==
    [response |-> text, done_reason |-> f.done_reason,
     prompt_eval_count |-> f.prompt_eval_count, eval_count |-> f.eval_count,
     load_duration |-> f.load_duration,
     prompt_eval_duration |-> f.prompt_eval_duration,
     eval_duration |-> f.eval_duration, total_duration |-> f.total_duration]

\* the answer of client.chat carrying text and the optional fields f
ChatResponse(text, f) ==
    [message |-> [content |-> text], done_reason |-> f.done_reason,
     prompt_eval_count |-> f.prompt_eval_count, eval_count |-> f.eval_count,
     load_duration |-> f.load_duration,
     prompt_eval_duration |-> f.prompt_eval_duration,
     eval_duration |-> f.eval_duration, total_duration |-> f.total_duration]

\* the optional fields of the answers the backend gives during a run
RunMetricFields ==
    MetricFields(Some("stop"), Some(1), Some(2), Some(600000), Some(400000), Some(2000000000), Some(2001000000))

LlmLoopVars == <<driver, config, prompts, models, filter_arg, mi, ident,
                 backend, model_timings, fnVars>>

\* the filter rejects the next prompt: continue
LlmSkipPrompt ==
    /\ driver = "llm" /\ pc = "prompts" /\ pi < Len(prompts)
    /\ LlmClassify(filter_arg, prompts[pi + 1]) = "skip"
    /\ pi' = pi + 1
    /\ UNCHANGED <<fsVars, LlmLoopVars, pc, pending, error, log>>

\* the next prompt has neither 'prompt' nor 'messages': ValueError
LlmRejectPrompt ==
    /\ driver = "llm" /\ pc = "prompts" /\ pi < Len(prompts)
    /\ LlmClassify(filter_arg, prompts[pi + 1]) = "invalid"
    /\ pi' = pi + 1
    /\ RaiseError(PromptError)
    /\ UNCHANGED <<fsVars, LlmLoopVars, pending, log>>

\* the next prompt is run in its native form: options are merged and the
\* completion or chat entry point is called; the call answers or fails
LlmGenerate ==
    /\ driver = "llm" /\ pc = "prompts" /\ pi < Len(prompts)
    /\ LET model_dict == models[mi]
           prompt_dict == prompts[pi + 1]
           current_mode == LlmClassify(filter_arg, prompt_dict)
           global_defaults == config.llm_generation_defaults
           merged == merge_options_call(global_defaults, model_dict.options, prompt_dict.options)
           options == merged.returned
           entry == IF current_mode = "completion" THEN "generate" ELSE "chat"
           call == [entry |-> entry, model |-> model_dict.name, options |-> options]
       IN  /\ current_mode \in {"completion", "chat"}
           /\ pi' = pi + 1
           /\ config' = [config EXCEPT !.llm_generation_defaults = merged.global_defaults]
           /\ models' = [models EXCEPT ![mi].options = merged.model_options]
           /\ prompts' = [prompts EXCEPT ![pi + 1].options = merged.prompt_options]
           /\ \/ \E text \in LlmTexts :
                    LET response == IF current_mode = "completion"
                                    THEN generate_response_completion(CompletionResponse(text, RunMetricFields))
                                    ELSE generate_response_chat(ChatResponse(text, RunMetricFields))
                    IN  /\ pending' = Some([current_mode |-> current_mode, response |-> response])
                        /\ log' = Append(log, Event("generate", mi, pi + 1, <<>>, TRUE, call))
                        /\ pc' = "save"
                        /\ UNCHANGED error
              \/ /\ log' = Append(log, Event("generate", mi, pi + 1, <<>>, FALSE, call))
                 /\ PropagateBackendError
                 /\ UNCHANGED pending
    /\ UNCHANGED <<fsVars, driver, filter_arg, mi, ident, backend, model_timings, fnVars>>

\* the result dictionary is built and save_llm_result writes its two files
LlmSaveResult ==
    /\ driver = "llm" /\ pc = "save"
    /\ LET model_name == models[mi].name
           prompt_id == prompts[pi].id
           current_mode == pending.val.current_mode
           result_data == [run_id |-> ident.val.run_id,
                           created_at |-> ident.val.created_at,
                           prompt_id |-> prompt_id,
                           model |-> model_name,
                           mode |-> current_mode,
                           output |-> pending.val.response.output,
                           metrics |-> pending.val.response.metrics]
           fs2 == save_llm_result(Fs(dirs, files), ident.val.run_dir_name, config.results_dir, prompt_id, model_name, current_mode, result_data)
       IN  /\ dirs' = fs2.dirs
           /\ files' = fs2.files
           /\ log' = log \o WriteEvents(fs2, mi, pi)
           /\ IF fs2.err # "none"
              THEN RaiseError(fs2.err)
              ELSE pc' = "prompts" /\ UNCHANGED error
    /\ pending' = None
    /\ UNCHANGED <<LlmLoopVars, pi>>

\* mutant of AllModelsProcessed: the summary is due after the first model
AllModelsProcessed_AfterFirst == mi >= 1 \/ Len(models) = 0

\* the model loop is exhausted: the statements after it run
AllModelsProcessed == mi = Len(models)

\* save_llm_summary / save_image_summary, then return run_id
SaveSummary ==
    /\ pc = "models"
    /\ AllModelsProcessed
    /\ LET id == ident.val
           fs0 == Fs(dirs, files)
           fs2 == IF driver = "llm"
                  THEN save_llm_summary(fs0, id.run_id, id.run_dir_name, id.created_at, config.results_dir, prompts, models, model_timings)
                  ELSE save_image_summary(fs0, id.run_id, id.run_dir_name, id.created_at, config.results_dir, prompts, models, model_timings)
       IN  /\ dirs' = fs2.dirs
           /\ files' = fs2.files
           /\ log' = log \o WriteEvents(fs2, 0, 0)
           /\ IF fs2.err # "none"
              THEN RaiseError(fs2.err) /\ UNCHANGED result
              ELSE pc' = "done" /\ result' = Some(id.run_id) /\ UNCHANGED error
    /\ UNCHANGED <<driver, config, prompts, models, filter_arg, mi, pi, ident,
                   backend, model_timings, pending, args>>

-----------------------------------------------------------------------------
(* The image driver's loops.                                               *)

\* mutant of initialize_stable_diffusion: the model name is passed along
initialize_stable_diffusion_WithName(model_config) ==
    IF ~model_config.init_options.some
    THEN [err |-> "ValueError: missing 'init_options'", kwargs |-> None]
    ELSE [err |-> "none",
          kwargs |-> Some([k \in DOMAIN model_config.init_options.val \cup {"name"} |->
                             IF k = "name" THEN model_config.name
                             ELSE model_config.init_options.val[k]])]

\* initialize_stable_diffusion(model_config): ValueError when the
\* init_options key is missing, else StableDiffusion(**init_options); kwargs
\* are the keyword arguments the constructor is called with
initialize_stable_diffusion(model_config) ==
    IF ~model_config.init_options.some
    THEN [err |-> "ValueError: missing 'init_options'", kwargs |-> None]
    ELSE [err |-> "none", kwargs |-> Some(model_config.init_options.val)]

\* mutant of ImageInitBackend: a backend constructed for an earlier model is
\* kept for the later ones
ImageInitBackend_Reuse ==
    /\ driver = "image" /\ pc = "init_sd"
    /\ IF ~models[mi].init_options.some
       THEN /\ RaiseError("ValueError: missing 'init_options'")
            /\ UNCHANGED <<backend, log>>
       ELSE IF backend.some
       THEN /\ pc' = "prompts"
            /\ UNCHANGED <<backend, log, error>>
       ELSE /\ backend' = Some([model |-> mi, init_options |-> models[mi].init_options.val])
            /\ log' = Append(log, Event("construct", mi, pi, <<>>, TRUE, models[mi].init_options.val))
            /\ pc' = "prompts"
            /\ UNCHANGED error
    /\ UNCHANGED <<fsVars, driver, config, prompts, models, filter_arg, mi, pi,
                   ident, model_timings, pending, fnVars>>

\* sd = initialize_stable_diffusion(model): ValueError without init_options,
\* else StableDiffusion(**init_options), which constructs or fails
ImageInitBackend ==
    /\ driver = "image" /\ pc = "init_sd"
    /\ LET init == initialize_stable_diffusion(models[mi])
       IN  IF init.err # "none"
           THEN /\ RaiseError(init.err)
                /\ UNCHANGED <<backend, log>>
           ELSE \E ok \in BOOLEAN :
                   /\ log' = Append(log, Event("construct", mi, pi, <<>>, ok, init.kwargs.val))
                   /\ IF ok
                      THEN /\ backend' = Some([model |-> mi, init_options |-> init.kwargs.val])
                           /\ pc' = "prompts"
                           /\ UNCHANGED error
                      ELSE /\ PropagateBackendError
                           /\ UNCHANGED backend
    /\ UNCHANGED <<fsVars, driver, config, prompts, models, filter_arg, mi, pi,
                   ident, model_timings, pending, fnVars>>

\* mutant of ImageFiltered: with a filter other than "all" no prompt is skipped
ImageFiltered_AllOnly(mode_filter, prompt) ==
    mode_filter = "all" /\ prompt.mode # mode_filter

\* mode_filter != "all" and prompt_mode != mode_filter
ImageFiltered(mode_filter, prompt) ==
    mode_filter # "all" /\ prompt.mode # mode_filter

ImageLoopVars == <<driver, config, prompts, models, filter_arg, mi, ident,
                   backend, model_timings, fnVars>>

\* the filter rejects the next prompt: continue
ImageSkipPrompt ==
    /\ driver = "image" /\ pc = "prompts" /\ pi < Len(prompts)
    /\ ImageFiltered(filter_arg, prompts[pi + 1])
    /\ pi' = pi + 1
    /\ UNCHANGED <<fsVars, ImageLoopVars, pc, pending, error, log>>

\* mutant of generate_image_params: only the prompt's own options are passed
generate_image_params_PromptOnly(prompt_config, options) ==
    DictUpdate(EmptyDict, prompt_config.options)

\* params = dict(options); params.update(prompt_config["options"]);
\* sd.generate_image(**params)
generate_image_params(prompt_config, options) ==
    DictUpdate(options, prompt_config.options)

\* the images sd.generate_image returns: batch_count of them (one when the
\* option is not passed), told apart by position
ReturnedImages(params) ==
    LET k == IF "batch_count" \in DOMAIN params THEN params["batch_count"] ELSE 1
    IN  [i \in 1..k |-> [pixels |-> i]]

\* the prompt directories are made, the options merged and generate_image
\* called; the call returns a batch or fails
ImageGenerate ==
    /\ driver = "image" /\ pc = "prompts" /\ pi < Len(prompts)
    /\ LET model == models[mi]
           prompt == prompts[pi + 1]
           run_path == Append(config.results_dir, ident.val.run_dir_name)
           fs2 == make_prompt_dirs(Fs(dirs, files), run_path, prompt.id)
           global_defaults == config.image_generation_defaults
           merge_call == merge_image_options_call(global_defaults, model.generation_options, Some(prompt.options))
           merged_options == merge_call.returned
           merged == Event("merge", mi, pi + 1, <<>>, TRUE, merged_options)
           call == [entry |-> "generate_image", sd |-> backend.val,
                    params |-> generate_image_params(prompt, merged_options)]
       IN  /\ ~ImageFiltered(filter_arg, prompt)
           /\ pi' = pi + 1
           /\ dirs' = fs2.dirs
           /\ IF fs2.err # "none"
              THEN /\ RaiseError(fs2.err)
                   /\ UNCHANGED <<pending, log, config, models, prompts>>
              ELSE /\ config' = [config EXCEPT !.image_generation_defaults = merge_call.global_defaults]
                   /\ models' = [models EXCEPT ![mi].generation_options = merge_call.model_options]
                   /\ prompts' = [prompts EXCEPT ![pi + 1].options = merge_call.prompt_options.val]
                   /\ \/ LET images == ReturnedImages(call.params)
                         IN /\ pending' = Some([images |-> images, merged_options |-> merged_options])
                            /\ log' = log \o <<merged,
                                   Event("generate", mi, pi + 1, <<>>, TRUE, [entry |-> call.entry, sd |-> call.sd, params |-> call.params, images |-> images])>>
                            /\ pc' = "save"
                            /\ UNCHANGED error
                      \/ /\ log' = log \o <<merged, Event("generate", mi, pi + 1, <<>>, FALSE, call)>>
                         /\ PropagateBackendError
                         /\ UNCHANGED pending
    /\ UNCHANGED <<files, driver, filter_arg, mi, ident, backend, model_timings, fnVars>>

\* every image of the batch is saved with its metadata
ImageSaveBatch ==
    /\ driver = "image" /\ pc = "save"
    /\ LET model_name == models[mi].name
           prompt == prompts[pi]
           run_path == Append(config.results_dir, ident.val.run_dir_name)
           prompt_dir == run_path \o <<Chars("image"), prompt.id>>
           metadata == [run_id |-> ident.val.run_id,
                        created_at |-> ident.val.created_at,
                        mode |-> prompt.mode,
                        model |-> [name |-> model_name],
                        prompt |-> [id |-> prompt.id],
                        generation_options |-> pending.val.merged_options]
           fs2 == SaveImages(Fs(dirs, files), pending.val.images, 1, prompt_dir, model_name, metadata)
       IN  /\ dirs' = fs2.dirs
           /\ files' = fs2.files
           /\ log' = log \o WriteEvents(fs2, mi, pi)
           /\ IF fs2.err # "none"
              THEN RaiseError(fs2.err)
              ELSE pc' = "prompts" /\ UNCHANGED error
    /\ pending' = None
    /\ UNCHANGED <<ImageLoopVars, pi>>

-----------------------------------------------------------------------------

Next ==
    \/ ValidateFilter
    \/ GenerateIdentifiers
    \/ CreateStructure
    \/ LlmInitClient
    \/ StartModel
    \/ LlmSkipPrompt
    \/ LlmRejectPrompt
    \/ LlmGenerate
    \/ LlmSaveResult
    \/ ImageInitBackend
    \/ ImageSkipPrompt
    \/ ImageGenerate
    \/ ImageSaveBatch
    \/ EndModel
    \/ SaveSummary

Spec == Init /\ [][Next]_vars

-----------------------------------------------------------------------------
(* Properties of a driver run.                                             *)

Events(op) == {i \in 1..Len(log) : log[i].op = op}

IsSummaryPath(path) == path[Len(path)] = Chars("summary.json")
IsMarkdownPath(path) == path[Len(path) - 1] = Chars("markdown")

SummaryWrites == {i \in Events("write") : IsSummaryPath(log[i].path)}
ResultWrites == {i \in Events("write") : ~IsSummaryPath(log[i].path)}

\* the events of the pair (model m, prompt p)
PairEvents(op, m, p) == {i \in Events(op) : log[i].mi = m /\ log[i].pi = p}

DistinctModelNames ==
    \A i, j \in 1..Len(models) : i # j => models[i].name # models[j].name
DistinctPromptIds ==
    \A i, j \in 1..Len(prompts) : i # j => prompts[i].id # prompts[j].id

\* C3: in a run of the text driver over models with pairwise distinct names
\* and prompts with pairwise distinct ids, every result file is written
\* exactly once and never overwritten: distinct (model, prompt) pairs are
\* persisted to distinct paths.
C3_ResultFilesWrittenOnce ==
    (driver = "llm" /\ DistinctModelNames /\ DistinctPromptIds) =>
        \A i, j \in ResultWrites : i # j => log[i].path # log[j].path

\* C4: a driver called with a filter outside its three values raises the
\* configuration error while no identity has been generated, no directory
\* created, no backend constructed or called and no file written.
C4_FilterCheckedFirst ==
    ~FilterValid(driver, filter_arg) =>
        /\ pc = "start" \/ (pc = "raised" /\ error = "ValueError: invalid filter")
        /\ log = <<>>
        /\ ident = None
        /\ backend = None
        /\ files = EmptyDict
        /\ dirs \in InitialDirs

\* the image driver refused mode_filter "both" with models and prompts to run
C4_Witness ==
    /\ driver = "image" /\ filter_arg = "both"
    /\ pc = "raised" /\ error = "ValueError: invalid filter"
    /\ Len(models) >= 1 /\ Len(prompts) >= 1
    /\ dirs = {Root}

\* the two forms of a text prompt
CompletionForm(p) == p.prompt.some /\ ~p.messages.some
ChatForm(p) == p.messages.some /\ ~p.prompt.some
FormOf(p) == IF CompletionForm(p) THEN "completion" ELSE "chat"

\* C5: in the text driver, with prompt_filter = completion no chat-form
\* prompt is generated or persisted, with chat no completion-form prompt is,
\* and with all every prompt is generated and persisted by a run that
\* returns; each persisted record's mode and the mode suffix of its file
\* name equal the form of its prompt; completion-form prompts go to the
\* single-turn entry point and chat-form prompts to the multi-turn one.
C5_FilterAndDispatch ==
    driver = "llm" =>
        /\ \A i \in Events("generate") \cup ResultWrites :
              /\ filter_arg = "completion" => ~ChatForm(prompts[log[i].pi])
              /\ filter_arg = "chat" => ~CompletionForm(prompts[log[i].pi])
        /\ (filter_arg = "all" /\ pc = "done") =>
              \A m \in 1..Len(models), p \in 1..Len(prompts) :
                  /\ \E i \in PairEvents("generate", m, p) : log[i].ok
                  /\ \E i \in PairEvents("write", m, p) : ~IsMarkdownPath(log[i].path)
                  /\ \E i \in PairEvents("write", m, p) : IsMarkdownPath(log[i].path)
        /\ \A i \in ResultWrites :
              LET p == prompts[log[i].pi]
                  name == models[log[i].mi].name
                  file == log[i].path[Len(log[i].path)]
              IN  (CompletionForm(p) \/ ChatForm(p)) =>
                      IF IsMarkdownPath(log[i].path)
                      THEN file = LlmFileName(name, FormOf(p), ".md")
                      ELSE /\ file = LlmFileName(name, FormOf(p), ".json")
                           /\ log[i].detail.mode = FormOf(p)
        /\ \A i \in Events("generate") :
              LET p == prompts[log[i].pi]
              IN  /\ CompletionForm(p) => log[i].detail.entry = "generate"
                  /\ ChatForm(p) => log[i].detail.entry = "chat"

\* a completed run under prompt_filter = completion over a completion-form
\* and a chat-form prompt: the first was generated and saved, the second not
C5_Witness ==
    /\ driver = "llm" /\ filter_arg = "completion" /\ pc = "done"
    /\ Len(models) = 1 /\ Len(prompts) = 2
    /\ CompletionForm(prompts[1]) /\ ChatForm(prompts[2])
    /\ PairEvents("generate", 1, 1) # {} /\ PairEvents("write", 1, 1) # {}
    /\ PairEvents("generate", 1, 2) = {} /\ PairEvents("write", 1, 2) = {}

NeitherForm(p) == ~p.prompt.some /\ ~p.messages.some

\* the prompt loop of the text driver is at a prompt that has neither form
AtNeitherPrompt == driver = "llm" /\ pi >= 1 /\ NeitherForm(prompts[pi])

\* C6 as claimed: a prompt with neither form, once reached by the prompt
\* loop, raises the configuration error for every value of prompt_filter,
\* with no generation call and no result for that prompt.
C6_Original ==
    AtNeitherPrompt =>
        /\ pc = "raised" /\ error = PromptError
        /\ PairEvents("generate", mi, pi) = {}
        /\ PairEvents("write", mi, pi) = {}

\* C6 as amended: a prompt with neither form, once reached by the prompt
\* loop, raises the configuration error when prompt_filter = all and is
\* skipped without error when prompt_filter is completion or chat; in both
\* cases no generation call is made and no result written for that prompt.
C6_Amended ==
    AtNeitherPrompt =>
        /\ filter_arg = "all" => (pc = "raised" /\ error = PromptError)
        /\ filter_arg \in {"completion", "chat"} =>
              (pc \in {"prompts", "models", "done"} /\ error = "none")
        /\ PairEvents("generate", mi, pi) = {}
        /\ PairEvents("write", mi, pi) = {}

\* under prompt_filter = all the error was raised at the second prompt, after
\* the first had been generated and saved
C6_Witness ==
    /\ AtNeitherPrompt /\ filter_arg = "all"
    /\ pc = "raised" /\ error = PromptError
    /\ pi = 2 /\ PairEvents("write", mi, 1) # {}

\* C7: summary.json is written at most once, only after the prompt loop of
\* the last model has finished and its timing has been recorded; a run that
\* returns has written it exactly once, and nothing is written after it.
C7_SummaryOnceAtEnd ==
    /\ Cardinality(SummaryWrites) <= 1
    /\ \A s \in SummaryWrites :
          /\ s = Len(log)
          /\ mi = Len(models)
          /\ \A m \in 1..Len(models) :
                /\ models[m].name \in DOMAIN model_timings
                /\ \E t \in Events("timing") :
                      t < s /\ log[t].mi = m /\ log[t].pi = Len(prompts)
          /\ \A i \in ResultWrites \cup Events("generate") : i < s
    /\ pc = "done" => Cardinality(SummaryWrites) = 1

\* an image run over two models returned: results, two timings, one summary
C7_Witness ==
    /\ driver = "image" /\ pc = "done" /\ Len(models) = 2
    /\ ResultWrites # {}
    /\ Cardinality(Events("timing")) = 2
    /\ Cardinality(SummaryWrites) = 1

\* the summary file of the run, and what it stores under its domain key
SummaryPath == config.results_dir \o <<ident.val.run_dir_name, Chars("summary.json")>>
SummaryStored == IF driver = "llm" THEN files[SummaryPath].llm ELSE files[SummaryPath].image

\* C8: the summary of either driver reports prompt_count and model_count as
\* the lengths of the full configured lists, and prompts / models as all
\* configured ids and names in configuration order, whatever the filter
\* admitted.
C8_SummaryCountsConfiguration ==
    pc = "done" =>
        /\ SummaryPath \in DOMAIN files
        /\ SummaryStored.prompt_count = Len(prompts)
        /\ SummaryStored.model_count = Len(models)
        /\ SummaryStored.prompts = [i \in 1..Len(prompts) |-> prompts[i].id]
        /\ SummaryStored.models = [i \in 1..Len(models) |-> models[i].name]

\* an image run under mode_filter = txt2img returned: the img2img prompt was
\* never generated and is counted and listed all the same
C8_Witness ==
    /\ driver = "image" /\ pc = "done" /\ filter_arg = "txt2img"
    /\ Len(models) = 1 /\ Len(prompts) = 2
    /\ prompts[1].mode = "txt2img" /\ prompts[2].mode = "img2img"
    /\ PairEvents("generate", 1, 2) = {}
    /\ SummaryStored.prompt_count = 2
    /\ SummaryStored.prompts = <<P1, P2>>

FailedCalls == {i \in Events("construct") \cup Events("generate") : ~log[i].ok}

\* C9: when a backend call (construction or generation) fails, the driver
\* propagates the error without retrying, makes no further backend call,
\* writes no result for the failing pair, never writes summary.json, and
\* leaves the files written for earlier pairs as they are.
C9_BackendErrorAborts ==
    \A i \in FailedCalls :
        /\ pc = "raised" /\ error = "BackendError"
        /\ i = Len(log)
        /\ \A j \in 1..(i - 1) :
              ~(log[j].op = log[i].op /\ log[j].mi = log[i].mi /\ log[j].pi = log[i].pi)
        /\ log[i].op = "generate" => PairEvents("write", log[i].mi, log[i].pi) = {}
        /\ SummaryWrites = {}
        /\ \A j \in Events("write") :
              /\ log[j].path \in DOMAIN files
              /\ (\A k \in Events("write") : k > j => log[k].path # log[j].path)
                    => files[log[j].path] = log[j].detail

\* a generation call failed after an earlier pair had been saved
C9_Witness ==
    \E i \in FailedCalls :
        /\ log[i].op = "generate"
        /\ ResultWrites # {}
        /\ pc = "raised"

-----------------------------------------------------------------------------
(* Properties of the image driver.                                         *)

\* the successful generation calls of the image driver whose batch has been
\* handed to the save loop and saved
SavedBatches ==
    {g \in Events("generate") :
        /\ driver = "image" /\ log[g].ok
        /\ ~(pc = "save" /\ mi = log[g].mi /\ pi = log[g].pi)}

\* the write events of pair (m, p), in order
PairWrites(m, p) ==
    LET idx == PairEvents("write", m, p)
        RECURSIVE InOrder(_)
        InOrder(n) == IF n > Len(log) THEN <<>>
                      ELSE IF n \in idx THEN <<log[n]>> \o InOrder(n + 1)
                      ELSE InOrder(n + 1)
    IN  InOrder(1)

\* C12: a generation call of the image driver that returns k >= 1 images is
\* followed by exactly 2k writes for its pair: for i = 0..k-1, in order,
\* image/<prompt_id>/<sanitized_model>_<i>.png holding the i-th image and
\* image/<prompt_id>/json/<sanitized_model>_<i>.json.
C12_BatchFilesByIndex ==
    \A g \in SavedBatches :
        LET m == log[g].mi
            p == log[g].pi
            images == log[g].detail.images
            k == Len(images)
            w == PairWrites(m, p)
            prompt_dir == config.results_dir \o <<ident.val.run_dir_name, Chars("image"), prompts[p].id>>
            stem(i) == sanitize_fs_name(models[m].name) \o <<"_", Digits[i + 1]>>
        IN  k >= 1 =>
              /\ Len(w) = 2 * k
              /\ \A i \in 0..(k - 1) :
                    /\ w[2 * i + 1].path = Append(prompt_dir, stem(i) \o Chars(".png"))
                    /\ w[2 * i + 1].detail = images[i + 1]
                    /\ w[2 * i + 2].path = prompt_dir \o <<Chars("json"), stem(i) \o Chars(".json")>>

\* a batch of two images was saved as four files
C12_Witness ==
    \E g \in SavedBatches :
        /\ Len(log[g].detail.images) = 2
        /\ Len(PairWrites(log[g].mi, log[g].pi)) = 4
        /\ pc = "done"

\* the option map that the three layers of pair (m, p) define: the keys of
\* all layers, each with the value of the highest layer holding it
LayeredOptions(m, p) ==
    LET g == config.image_generation_defaults
        mo == models[m].generation_options
        po == prompts[p].options
        keysOf(o) == IF o.some THEN DOMAIN o.val ELSE {}
    IN  [k \in keysOf(g) \cup keysOf(mo) \cup DOMAIN po |->
            IF k \in DOMAIN po THEN po[k]
            ELSE IF k \in keysOf(mo) THEN mo.val[k]
            ELSE g.val[k]]

IsJsonPath(path) == SubSeq(path[Len(path)], Len(path[Len(path)]) - 4, Len(path[Len(path)])) = Chars(".json")

\* C13: every generation call of the image driver is passed exactly the
\* merged map of its pair (global image defaults < model generation_options
\* < prompt options), and every metadata JSON written for the pair records
\* that same map as generation_options.
C13_MergedOptionsPassedAndRecorded ==
    driver = "image" =>
        /\ \A g \in Events("generate") :
              log[g].detail.params = LayeredOptions(log[g].mi, log[g].pi)
        /\ \A w \in Events("write") :
              (log[w].mi > 0 /\ IsJsonPath(log[w].path))
                  => log[w].detail.generation_options = LayeredOptions(log[w].mi, log[w].pi)

\* a call whose map takes a key from the model layer over the global one
\* and another from the prompt, with its metadata written
C13_Witness ==
    /\ driver = "image"
    /\ \E g \in Events("generate"), w \in Events("write") :
          /\ log[g].ok
          /\ log[w].mi = log[g].mi /\ log[w].pi = log[g].pi
          /\ IsJsonPath(log[w].path)
          /\ models[log[g].mi].generation_options.some
          /\ log[g].detail.params["temperature"] = 2
          /\ log[g].detail.params["seed"] = 2
          /\ log[w].detail.generation_options = log[g].detail.params

\* the construction events of the image driver for entry m of the model list
Constructions(m) == {c \in Events("construct") : log[c].mi = m}

\* C14: in a run of the image driver the backend is constructed at most once
\* per entry of the model list (exactly once for every entry when the run
\* returns), from that entry's init_options alone; every generation call
\* of entry m comes after the successful construction for m and uses the
\* backend constructed there; in every later state of the run the options
\* of that construction are still the entry's init_options.
C14_BackendOncePerModel ==
    driver = "image" =>
        /\ \A m \in 1..Len(models) :
              /\ Cardinality(Constructions(m)) <= 1
              /\ pc = "done" => Cardinality(Constructions(m)) = 1
              /\ \A c \in Constructions(m) : log[c].detail = models[m].init_options.val
        /\ \A c \in Events("construct") : log[c].mi \in 1..Len(models)
        /\ \A g \in Events("generate") :
              /\ \E c \in Constructions(log[g].mi) : c < g /\ log[c].ok
              /\ log[g].detail.sd = [model |-> log[g].mi, init_options |-> models[log[g].mi].init_options.val]

\* a returned run over two models with different init_options, each with a
\* generation call
C14_Witness ==
    /\ driver = "image" /\ pc = "done" /\ Len(models) = 2
    /\ models[1].init_options # models[2].init_options
    /\ \E g1, g2 \in Events("generate") :
          /\ log[g1].mi = 1 /\ log[g2].mi = 2
          /\ log[g1].detail.sd.init_options # log[g2].detail.sd.init_options

\* the image driver has called initialize_stable_diffusion for entry m
Initialized(m) == driver = "image" /\ m <= mi /\ ~(m = mi /\ pc = "init_sd")

-----------------------------------------------------------------------------
(* NormalizeSpec: generate_response_completion / generate_response_chat on *)
(* backend answers with every combination of optional fields present or    *)
(* absent.                                                                 *)

MaxTokens == 2

TokenCounts == {None} \cup {Some(n) : n \in 0..MaxTokens}

\* durations in nanoseconds: absent, zero, below and above half a
\* millisecond, two seconds
EvalDurations == {None, Some(0), Some(400000), Some(600000), Some(2000000000)}
OtherDurations == {None, Some(600000)}
DoneReasons == {None, Some("stop")}

MetricFieldSets ==
    {MetricFields(d, ic, oc, ld, pd, ed, td) :
        d \in DoneReasons, ic \in TokenCounts, oc \in TokenCounts,
        ld \in OtherDurations, pd \in OtherDurations, ed \in EvalDurations,
        td \in OtherDurations}

NormalizeInit ==
    /\ DriverIdle
    /\ dirs = {Root}
    /\ files = EmptyDict
    /\ error = "none"
    /\ log = <<>>
    /\ args \in [text : LlmTexts, fields : MetricFieldSets]
    /\ result = None

\* function fn has not been called yet
NotCalled(fn) == \A i \in 1..Len(log) : log[i].fn # fn

\* the call is the last one (result) and is kept in the log
Normalized(fn, val) ==
    /\ result' = Some([fn |-> fn, val |-> val])
    /\ log' = Append(log, [fn |-> fn, val |-> val])

CallGenerateResponseCompletion ==
    /\ NotCalled("generate_response_completion")
    /\ Normalized("generate_response_completion",
                  generate_response_completion(CompletionResponse(args.text, args.fields)))
    /\ UNCHANGED <<fsVars, driverVars, error, args>>

CallGenerateResponseChat ==
    /\ NotCalled("generate_response_chat")
    /\ Normalized("generate_response_chat",
                  generate_response_chat(ChatResponse(args.text, args.fields)))
    /\ UNCHANGED <<fsVars, driverVars, error, args>>

NormalizeNext == CallGenerateResponseCompletion \/ CallGenerateResponseChat

NormalizeSpec == NormalizeInit /\ [][NormalizeNext]_vars

\* C16: in the metrics of a normalized answer total_tokens is non-null
\* exactly when the input and the output token count are both present, and
\* is then their sum; output_tokens_per_second is non-null exactly when the
\* output token count and the output duration are both present and
\* output_seconds is strictly positive.
C16_TotalsAndThroughput ==
    result.some =>
        LET f == args.fields
            m == result.val.val.metrics
        IN  /\ m.total_tokens.some <=> (f.prompt_eval_count.some /\ f.eval_count.some)
            /\ m.total_tokens.some => m.total_tokens.val = f.prompt_eval_count.val + f.eval_count.val
            /\ m.output_tokens_per_second.some <=>
                  (f.eval_count.some /\ f.eval_duration.some /\ m.output_seconds.some /\ m.output_seconds.val > 0)

\* one token in, two out in two seconds: three tokens, one token per second
C16_Witness ==
    /\ result.some
    /\ args.fields.prompt_eval_count = Some(1)
    /\ args.fields.eval_count = Some(2)
    /\ args.fields.eval_duration = Some(2000000000)
    /\ result.val.val.metrics.total_tokens = Some(3)
    /\ result.val.val.metrics.output_seconds = Some(2000)
    /\ result.val.val.metrics.output_tokens_per_second = Some(1000)

\* the optional answer fields a metric is computed from
MetricInputs(metric) ==
    CASE metric = "done_reason" -> {"done_reason"}
      [] metric = "input_tokens" -> {"prompt_eval_count"}
      [] metric = "output_tokens" -> {"eval_count"}
      [] metric = "total_tokens" -> {"prompt_eval_count", "eval_count"}
      [] metric = "load_seconds" -> {"load_duration"}
      [] metric = "input_seconds" -> {"prompt_eval_duration"}
      [] metric = "output_seconds" -> {"eval_duration"}
      [] metric = "total_seconds" -> {"total_duration"}
      [] metric = "output_tokens_per_second" -> {"eval_count", "eval_duration"}

MetricNames ==
    {"done_reason", "input_tokens", "output_tokens", "total_tokens",
     "load_seconds", "input_seconds", "output_seconds", "total_seconds",
     "output_tokens_per_second"}

\* C17: whatever subset of the optional fields is absent from the answer,
\* normalization returns (it has no failing path), the text is returned
\* unchanged, the metrics block has its nine fields, and every metric that
\* depends on an absent field is null; an answer with the text alone gives
\* nine nulls.
C17_AbsentFieldsGiveNulls ==
    result.some =>
        LET f == args.fields
            r == result.val.val
        IN  /\ r.output.text = args.text
            /\ DOMAIN r.metrics = MetricNames
            /\ \A metric \in MetricNames :
                  (\E k \in MetricInputs(metric) : ~f[k].some) => ~r.metrics[metric].some
            /\ (\A k \in DOMAIN f : ~f[k].some) => (\A metric \in MetricNames : r.metrics[metric] = None)

\* an answer carrying only its text was normalized to nine nulls
C17_Witness ==
    /\ result.some
    /\ \A k \in DOMAIN args.fields : ~args.fields[k].some
    /\ result.val.val.output.text = "hi"
    /\ \A metric \in MetricNames : result.val.val.metrics[metric] = None

-----------------------------------------------------------------------------
(* IdentSpec: generate_run_identifiers called repeatedly; each call reads  *)
(* the clock and draws three random bytes.                                 *)

\* the instants the clock may show: two seconds of one minute and a second
\* of the next day
ClockInstants ==
    Instants \cup
    {[ymd |-> <<"2", "0", "2", "6", "-", "0", "1", "-", "0", "8">>,
      hh |-> <<"1", "2">>, mm |-> <<"3", "4">>, ss |-> <<"5", "7">>],
     [ymd |-> <<"2", "0", "2", "6", "-", "0", "1", "-", "0", "9">>,
      hh |-> <<"0", "0">>, mm |-> <<"0", "0">>, ss |-> <<"0", "0">>]}

IdentInit ==
    /\ DriverIdle
    /\ dirs = {Root}
    /\ files = EmptyDict
    /\ error = "none"
    /\ log = <<>>
    /\ args = None
    /\ result = None

\* one call: now = datetime.now(timezone.utc), the draw of token_hex(3),
\* and the triple returned
CallGenerateRunIdentifiers ==
    /\ Len(log) < MaxCalls
    /\ \E now \in ClockInstants, bytes \in EntropyDraws :
          LET id == generate_run_identifiers(now, token_hex(bytes))
          IN  /\ log' = Append(log, [now |-> now, bytes |-> bytes, id |-> id])
              /\ result' = Some(id)
    /\ UNCHANGED <<fsVars, driverVars, error, args>>

IdentNext == CallGenerateRunIdentifiers

IdentSpec == IdentInit /\ [][IdentNext]_vars

LowerHexChars == {"0", "1", "2", "3", "4", "5", "6", "7", "8", "9", "a", "b", "c", "d", "e", "f"}

SuffixLen == 6

\* the last SuffixLen characters of s, and s without them and the hyphen
TailOf(s) == SubSeq(s, Len(s) - SuffixLen + 1, Len(s))
StampOf(s) == SubSeq(s, 1, Len(s) - SuffixLen - 1)

\* 'T' replaced by '_' and ':' replaced by '-'
DirSafe(s) == [i \in 1..Len(s) |-> IF s[i] = "T" THEN "_" ELSE IF s[i] = ":" THEN "-" ELSE s[i]]

\* C18: every returned triple has run_id = created_at + "-" + suffix with
\* suffix six lowercase hex characters; run_dir_name ends with "-" and the
\* same suffix; run_id's timestamp part with 'T' replaced by '_' and ':' by
\* '-' is run_dir_name's timestamp part; created_at is a prefix of run_id.
C18_IdentifiersAgree ==
    \A n \in 1..Len(log) :
        LET id == log[n].id
            suffix == TailOf(id.run_id)
        IN  /\ Len(id.run_id) = Len(id.created_at) + 1 + SuffixLen
            /\ id.run_id = id.created_at \o <<"-">> \o suffix
            /\ \A i \in 1..SuffixLen : suffix[i] \in LowerHexChars
            /\ TailOf(id.run_dir_name) = suffix
            /\ id.run_dir_name[Len(id.run_dir_name) - SuffixLen] = "-"
            /\ DirSafe(StampOf(id.run_id)) = StampOf(id.run_dir_name)
            /\ SubSeq(id.run_id, 1, Len(id.created_at)) = id.created_at

\* a triple was returned whose run_id holds 'T' and ':' and whose
\* run_dir_name holds neither ':' nor 'T'
C18_Witness ==
    /\ Len(log) >= 1
    /\ \E i \in 1..Len(log[1].id.run_id) : log[1].id.run_id[i] = ":"
    /\ \E i \in 1..Len(log[1].id.run_id) : log[1].id.run_id[i] = "T"
    /\ \A i \in 1..Len(log[1].id.run_dir_name) : log[1].id.run_dir_name[i] \notin {":", "T"}
    /\ TailOf(log[1].id.run_id) = <<"a", "3", "f", "2", "c", "1">>

-----------------------------------------------------------------------------
(* SanitizeSpec: sanitize_fs_name applied to a string, and again to what   *)
(* it returned.                                                            *)

MaxNameLen == 3

\* the nine characters of the pattern, and letters, digits and punctuation
\* that it does not name
NameAlphabet == {"<", ">", ":", "\"", "/", "\\", "|", "?", "*", "a", "_", ".", "-"}

Names == UNION {[1..n -> NameAlphabet] : n \in 0..MaxNameLen}

SanitizeInit ==
    /\ DriverIdle
    /\ dirs = {Root}
    /\ files = EmptyDict
    /\ error = "none"
    /\ log = <<>>
    /\ args \in Names
    /\ result = None

\* y = sanitize_fs_name(x)
CallSanitize ==
    /\ log = <<>>
    /\ log' = <<sanitize_fs_name(args)>>
    /\ result' = Some(sanitize_fs_name(args))
    /\ UNCHANGED <<fsVars, driverVars, error, args>>

\* z = sanitize_fs_name(y)
CallSanitizeAgain ==
    /\ Len(log) = 1
    /\ log' = Append(log, sanitize_fs_name(log[1]))
    /\ result' = Some(sanitize_fs_name(log[1]))
    /\ UNCHANGED <<fsVars, driverVars, error, args>>

SanitizeNext == CallSanitize \/ CallSanitizeAgain

SanitizeSpec == SanitizeInit /\ [][SanitizeNext]_vars

ForbiddenChars == {"<", ">", ":", "\"", "/", "\\", "|", "?", "*"}

\* C20: sanitize_fs_name(x) has the length of x, holds none of the
\* characters < > : " / \ | ? *, has '_' where x held one of them and the
\* character of x everywhere else, and applying the function to the result
\* returns the result.
C20_SanitizeReplacesInPlace ==
    /\ Len(log) >= 1 =>
          /\ Len(log[1]) = Len(args)
          /\ \A i \in 1..Len(log[1]) :
                /\ log[1][i] \notin ForbiddenChars
                /\ args[i] \in ForbiddenChars => log[1][i] = "_"
                /\ args[i] \notin ForbiddenChars => log[1][i] = args[i]
    /\ Len(log) >= 2 => log[2] = log[1]

\* a name holding a slash, a letter and an asterisk was sanitized twice
C20_Witness ==
    /\ args = <<"/", "a", "*">>
    /\ Len(log) = 2
    /\ log[1] = <<"_", "a", "_">>
    /\ log[2] = <<"_", "a", "_">>

-----------------------------------------------------------------------------
(* The configuration loaders. A value of a YAML document is a record       *)
(* [type, chars, items, entries]: type is the Python type yaml.safe_load   *)
(* gives the value, chars the characters of a string or the digits of an   *)
(* integer, items the members of a list and entries the record of the      *)
(* optional entries of a mapping.                                          *)

YStr(chars) == [type |-> "str", chars |-> chars, items |-> <<>>, entries |-> None]
YInt(digits) == [type |-> "int", chars |-> digits, items |-> <<>>, entries |-> None]
YList(items) == [type |-> "list", chars |-> <<>>, items |-> items, entries |-> None]
YDict(entries) == [type |-> "dict", chars |-> <<>>, items |-> <<>>, entries |-> entries]

\* isinstance(v, list) / isinstance(v, dict) / isinstance(v, str)
IsList(v) == v.type = "list"
IsDict(v) == v.type = "dict"
IsStr(v) == v.type = "str"

\* the characters of the class [a-z0-9_]
IdChars ==
    {"a", "b", "c", "d", "e", "f", "g", "h", "i", "j", "k", "l", "m",
     "n", "o", "p", "q", "r", "s", "t", "u", "v", "w", "x", "y", "z",
     "0", "1", "2", "3", "4", "5", "6", "7", "8", "9", "_"}

\* re.compile(r"^[a-z0-9_]+$").match(chars) on a string: one or more
\* characters of the class, then the end of the string or a newline that
\* ends the string
PatternMatches(chars) ==
    LET body == IF Len(chars) >= 1 /\ chars[Len(chars)] = "\n"
                THEN SubSeq(chars, 1, Len(chars) - 1) ELSE chars
    IN  /\ Len(body) >= 1
        /\ \A i \in 1..Len(body) : body[i] \in IdChars

ValidRoles == {<<"s", "y", "s", "t", "e", "m">>, <<"u", "s", "e", "r">>,
               <<"a", "s", "s", "i", "s", "t", "a", "n", "t">>}

\* the checks on one message of a "messages" list; a role that is a list or
\* a mapping cannot be looked up in the set of valid roles
ValidateMessage(msg) ==
    IF ~IsDict(msg) THEN "ValueError"
    ELSE IF ~msg.entries.role.some \/ ~msg.entries.content.some THEN "ValueError"
    ELSE IF msg.entries.role.val.type \in {"list", "dict"} THEN "TypeError"
    ELSE IF ~(IsStr(msg.entries.role.val) /\ msg.entries.role.val.chars \in ValidRoles)
         THEN "ValueError"
    ELSE "none"

\* the checks on the "messages" value, in the order of the code: the
\* exception of the first message that fails
ValidateMessages(messages) ==
    IF ~IsList(messages) THEN "ValueError"
    ELSE IF Len(messages.items) = 0 THEN "ValueError"
    ELSE LET bad == {i \in 1..Len(messages.items) :
                        ValidateMessage(messages.items[i]) # "none"}
         IN  IF bad = {} THEN "none"
             ELSE ValidateMessage(messages.items[CHOOSE i \in bad : \A j \in bad : i <= j])

\* mutant of ValidatePrompt: the two checks on 'prompt' and 'messages' are
\* left out
ValidatePrompt_AnyForm(prompt, seen_ids) ==
    IF ~IsDict(prompt) THEN "ValueError"
    ELSE IF ~prompt.entries.id.some THEN "ValueError"
    ELSE LET prompt_id == prompt.entries.id.val
         IN  IF ~IsStr(prompt_id) THEN "TypeError"
             ELSE IF ~PatternMatches(prompt_id.chars) THEN "ValueError"
             ELSE IF prompt_id \in seen_ids THEN "ValueError"
             ELSE "none"

\* the body of the loop of load_llm_prompts for one entry: the exception
\* it raises ("none" when none), seen_ids being the ids of earlier entries
ValidatePrompt(prompt, seen_ids) ==
    IF ~IsDict(prompt) THEN "ValueError"
    ELSE IF ~prompt.entries.id.some THEN "ValueError"
    ELSE LET prompt_id == prompt.entries.id.val
             has_prompt == prompt.entries.prompt.some
             has_messages == prompt.entries.messages.some
         IN  IF ~has_prompt /\ ~has_messages THEN "ValueError"
             ELSE IF has_prompt /\ has_messages THEN "ValueError"
             ELSE IF has_messages /\ ValidateMessages(prompt.entries.messages.val) # "none"
                  THEN ValidateMessages(prompt.entries.messages.val)
             ELSE IF prompt.entries.options.some /\ ~IsDict(prompt.entries.options.val)
                  THEN "ValueError"
             \* Pattern.match(prompt_id) takes a string and nothing else
             ELSE IF ~IsStr(prompt_id) THEN "TypeError"
             ELSE IF ~PatternMatches(prompt_id.chars) THEN "ValueError"
             ELSE IF prompt_id \in seen_ids THEN "ValueError"
             ELSE "none"

RECURSIVE ValidatePrompts(_, _, _)
\* for i, prompt in enumerate(prompts), from entry i on
ValidatePrompts(items, i, seen_ids) ==
    IF i > Len(items) THEN "none"
    ELSE LET e == ValidatePrompt(items[i], seen_ids)
         IN  IF e # "none" THEN e
             ELSE ValidatePrompts(items, i + 1, seen_ids \cup {items[i].entries.id.val})

\* load_llm_prompts on the document yaml.safe_load returned: the exception
\* raised ("none" when none) and the list returned
load_llm_prompts(document) ==
    IF ~IsList(document) THEN [err |-> "ValueError", prompts |-> None]
    ELSE LET e == ValidatePrompts(document.items, 1, {})
         IN  IF e # "none" THEN [err |-> e, prompts |-> None]
             ELSE [err |-> "none", prompts |-> Some(document.items)]

\* the checks of load_image_models on one entry
ValidateImageModel(model) ==
    IF ~IsDict(model) THEN "ValueError"
    ELSE IF ~model.entries.name.some THEN "ValueError"
    ELSE IF ~model.entries.init_options.some THEN "ValueError"
    ELSE IF ~IsDict(model.entries.init_options.val) THEN "ValueError"
    ELSE IF model.entries.generation_options.some
              /\ ~IsDict(model.entries.generation_options.val)
         THEN "ValueError"
    ELSE "none"

\* load_image_models on the document yaml.safe_load returned: the exception
\* raised ("none" when none) and the list returned
load_image_models(document) ==
    IF ~IsList(document) THEN [err |-> "ValueError", models |-> None]
    ELSE IF \E i \in 1..Len(document.items) : ValidateImageModel(document.items[i]) # "none"
         THEN [err |-> "ValueError", models |-> None]
    ELSE [err |-> "none", models |-> Some(document.items)]

(* Environment variables. The characters of a string are single characters *)
(* and whole references: "${TEST_HOME}" is one member of the sequence.     *)

VarRefs == {"${TEST_HOME}", "${UNSET_VAR}"}

HomeUser == <<"/", "h", "o", "m", "e", "/", "u", "s", "e", "r">>

\* os.environ, by reference: TEST_HOME=/home/user, UNSET_VAR not set
Environ == [r \in {"${TEST_HOME}"} |-> HomeUser]

RECURSIVE expandvars(_)
\* os.path.expandvars: a reference to a set variable becomes its value, a
\* reference to an unset variable is left unchanged
expandvars(chars) ==
    IF chars = <<>> THEN <<>>
    ELSE LET c == Head(chars)
         IN  (IF c \in DOMAIN Environ THEN Environ[c] ELSE <<c>>)
                 \o expandvars(Tail(chars))

RECURSIVE expand_env_vars(_)
\* expand_env_vars: strings are expanded, mappings and lists recursively,
\* every other value is returned unchanged
expand_env_vars(value) ==
    IF IsStr(value) THEN YStr(expandvars(value.chars))
    ELSE IF IsDict(value)
         THEN YDict([k \in DOMAIN value.entries |->
                        IF value.entries[k].some
                        THEN Some(expand_env_vars(value.entries[k].val))
                        ELSE None])
    ELSE IF IsList(value)
         THEN YList([i \in 1..Len(value.items) |-> expand_env_vars(value.items[i])])
    ELSE value

-----------------------------------------------------------------------------
(* LoadSpec: the loaders on documents of at most MaxEntries entries.       *)

MaxEntries == 2

PromptEntry(id, prompt, messages, options) ==
    YDict([id |-> id, prompt |-> prompt, messages |-> messages, options |-> options])

Message(role, content) == YDict([role |-> role, content |-> content])

TextHi == YStr(<<"h", "i">>)
RoleUser == YStr(<<"u", "s", "e", "r">>)
RoleRoot == YStr(<<"r", "o", "o", "t">>)
GoodMessages == YList(<<Message(Some(RoleUser), Some(TextHi))>>)
SeedOptions == YDict([seed |-> Some(YInt(<<"1">>))])

\* entries of a prompts file: the two valid forms, then one entry for each
\* way of being invalid
PromptEntries ==
    {PromptEntry(Some(YStr(P1)), Some(TextHi), None, Some(SeedOptions)),
     PromptEntry(Some(YStr(P2)), None, Some(GoodMessages), None),
     PromptEntry(Some(YStr(P3)), None, None, None),
     PromptEntry(Some(YStr(P4)), Some(TextHi), Some(GoodMessages), None),
     PromptEntry(None, Some(TextHi), None, None),
     PromptEntry(Some(YStr(<<"P", "1">>)), Some(TextHi), None, None),
     PromptEntry(Some(YStr(<<"a", "-", "b">>)), Some(TextHi), None, None),
     PromptEntry(Some(YStr(<<>>)), Some(TextHi), None, None),
     PromptEntry(Some(YStr(<<"p", "1", "\n">>)), Some(TextHi), None, None),
     PromptEntry(Some(YInt(<<"1", "2", "3">>)), Some(TextHi), None, None),
     PromptEntry(Some(YStr(P1)), None, Some(YList(<<>>)), None),
     PromptEntry(Some(YStr(P1)), None, Some(TextHi), None),
     PromptEntry(Some(YStr(P1)), None,
                 Some(YList(<<Message(Some(RoleRoot), Some(TextHi))>>)), None),
     PromptEntry(Some(YStr(P1)), None,
                 Some(YList(<<Message(Some(RoleUser), None)>>)), None),
     PromptEntry(Some(YStr(P1)), None, Some(YList(<<TextHi>>)), None),
     PromptEntry(Some(YStr(P2)), Some(TextHi), None, Some(YList(<<>>))),
     TextHi}

\* what yaml.safe_load may return for a prompts file
PromptDocuments ==
    {YList(items) : items \in ListsUpTo(PromptEntries, MaxEntries)}
        \cup {YDict([prompts |-> None])}

ImageModelEntry(name, init_options, generation_options) ==
    YDict([name |-> name, init_options |-> init_options,
           generation_options |-> generation_options])

FluxPath == <<"${TEST_HOME}", "/", "f", "l", "u", "x">>
ClipPath == <<"/", "c", "l", "i", "p">>
VaePath == <<"${UNSET_VAR}", "/", "v", "a", "e">>

\* entries of an image models file: paths with and without references, then
\* one entry for each way of being invalid
ImageModelEntries ==
    {ImageModelEntry(Some(YStr(NamePlain)),
                     Some(YDict([diffusion_model_path |-> Some(YStr(FluxPath)),
                                 clip_l_path |-> Some(YStr(ClipPath))])),
                     Some(SeedOptions)),
     ImageModelEntry(Some(YStr(NameSlash)),
                     Some(YDict([diffusion_model_path |-> Some(YStr(ClipPath)),
                                 clip_l_path |-> None])),
                     None),
     ImageModelEntry(Some(YStr(NameColon)),
                     Some(YDict([diffusion_model_path |-> Some(YStr(VaePath)),
                                 clip_l_path |-> None])),
                     None),
     ImageModelEntry(Some(YStr(NamePlain)), None, None),
     ImageModelEntry(Some(YStr(NamePlain)), Some(YStr(FluxPath)), None),
     ImageModelEntry(None, Some(YDict([diffusion_model_path |-> Some(YStr(ClipPath)),
                                       clip_l_path |-> None])), None),
     ImageModelEntry(Some(YStr(NamePlain)),
                     Some(YDict([diffusion_model_path |-> Some(YStr(ClipPath)),
                                 clip_l_path |-> None])),
                     Some(YList(<<>>))),
     TextHi}

\* what yaml.safe_load may return for an image models file
ImageModelDocuments ==
    {YList(items) : items \in ListsUpTo(ImageModelEntries, MaxEntries)}
        \cup {YDict([models |-> None])}

LoadInit ==
    /\ DriverIdle
    /\ dirs = {Root}
    /\ files = EmptyDict
    /\ error = "none"
    /\ log = <<>>
    /\ args \in [fn : {"load_llm_prompts"}, document : PromptDocuments]
                  \cup [fn : {"load_image_models"}, document : ImageModelDocuments]
    /\ result = None

CallLoadLlmPrompts ==
    /\ result = None
    /\ args.fn = "load_llm_prompts"
    /\ result' = Some(load_llm_prompts(args.document))
    /\ UNCHANGED <<fsVars, driverVars, error, log, args>>

CallLoadImageModels ==
    /\ result = None
    /\ args.fn = "load_image_models"
    /\ result' = Some(load_image_models(args.document))
    /\ UNCHANGED <<fsVars, driverVars, error, log, args>>

LoadNext == CallLoadLlmPrompts \/ CallLoadImageModels

LoadSpec == LoadInit /\ [][LoadNext]_vars

\* the id of an entry is a string matching ^[a-z0-9_]+$
HasMatchingId(entry) ==
    /\ entry.entries.id.some
    /\ IsStr(entry.entries.id.val)
    /\ PatternMatches(entry.entries.id.val.chars)

\* a messages value is a non-empty list of entries that each have a role in
\* {system, user, assistant} and a content
WellFormedMessages(messages) ==
    /\ IsList(messages)
    /\ Len(messages.items) >= 1
    /\ \A i \in 1..Len(messages.items) :
          LET msg == messages.items[i]
          IN  /\ IsDict(msg)
              /\ msg.entries.role.some
              /\ IsStr(msg.entries.role.val)
              /\ msg.entries.role.val.chars \in ValidRoles
              /\ msg.entries.content.some

\* the entry has exactly one of 'prompt' and 'messages'
HasOneForm(entry) ==
    /\ entry.entries.prompt.some # entry.entries.messages.some
    /\ entry.entries.messages.some => WellFormedMessages(entry.entries.messages.val)

\* the three conditions of C21 on a list of entries
ConformingList(items) ==
    /\ \A i \in 1..Len(items) :
          IsDict(items[i]) /\ HasMatchingId(items[i]) /\ HasOneForm(items[i])
    /\ \A i, j \in 1..Len(items) :
          i # j => items[i].entries.id.val.chars # items[j].entries.id.val.chars

\* C21: load_llm_prompts accepts a prompt list only if every entry has an
\* id matching ^[a-z0-9_]+$, ids are pairwise distinct and every entry has
\* exactly one of 'prompt' and 'messages'; every list violating one of these
\* conditions is rejected with ValueError.
C21_LoaderRejectsWithValueError ==
    (result.some /\ args.fn = "load_llm_prompts" /\ IsList(args.document)) =>
        /\ result.val.err = "none" => ConformingList(args.document.items)
        /\ ~ConformingList(args.document.items) => result.val.err = "ValueError"

\* C22: load_image_models returns models whose init_options values have
\* every ${VAR} environment-variable reference replaced by the variable's
\* value.
C22_InitOptionsExpanded ==
    (result.some /\ args.fn = "load_image_models" /\ result.val.err = "none") =>
        \A i \in 1..Len(result.val.models.val) :
            result.val.models.val[i].entries.init_options.val =
                expand_env_vars(args.document.items[i].entries.init_options.val)

-----------------------------------------------------------------------------
(* The image driver's filter (Spec).                                       *)

\* the filter admits the prompt: mode_filter = all or the modes are equal
Admitted(mode_filter, prompt) == mode_filter = "all" \/ prompt.mode = mode_filter

\* the (model, prompt) pairs the loops have finished with
PairsDone ==
    {mp \in (1..Len(models)) \X (1..Len(prompts)) :
        \/ mp[1] < mi
        \/ mp[1] = mi /\ mp[2] < pi
        \/ mp[1] = mi /\ mp[2] = pi /\ pc = "prompts"
        \/ pc = "done"}

\* the directory of the prompts with the id of prompt p
ImagePromptDir(p) ==
    Append(config.results_dir, ident.val.run_dir_name) \o <<Chars("image"), prompts[p].id>>

\* C23: in the image driver a prompt is generated and persisted for a model
\* exactly when mode_filter = all or the prompt's mode equals mode_filter:
\* every pair the loops have finished with was merged, generated and saved
\* if admitted, and a rejected prompt has no directory, no merge event, no
\* generation call and no file.
C23_ImageFilterExact ==
    (driver = "image" /\ FilterValid(driver, filter_arg)) =>
        /\ \A mp \in PairsDone :
              Admitted(filter_arg, prompts[mp[2]]) =>
                  /\ \E i \in PairEvents("merge", mp[1], mp[2]) : TRUE
                  /\ \E i \in PairEvents("generate", mp[1], mp[2]) : log[i].ok
                  /\ \E i \in PairEvents("write", mp[1], mp[2]) : IsJsonPath(log[i].path)
                  /\ \E i \in PairEvents("write", mp[1], mp[2]) : ~IsJsonPath(log[i].path)
                  /\ ImagePromptDir(mp[2]) \in dirs
        /\ \A p \in 1..Len(prompts) :
              ~Admitted(filter_arg, prompts[p]) =>
                  /\ \A i \in Events("merge") \cup Events("generate") \cup Events("write") :
                        log[i].pi # p
                  /\ ident.some =>
                        /\ ImagePromptDir(p) \notin dirs
                        /\ \A f \in DOMAIN files :
                              ~(/\ Len(f) >= Len(ImagePromptDir(p))
                                /\ SubSeq(f, 1, Len(ImagePromptDir(p))) = ImagePromptDir(p))

\* a completed run under mode_filter = img2img over a txt2img and an img2img
\* prompt: the second has its files, the first has none
C23_Witness ==
    /\ driver = "image" /\ filter_arg = "img2img" /\ pc = "done"
    /\ Len(prompts) = 2
    /\ prompts[1].mode = "txt2img" /\ prompts[2].mode = "img2img"
    /\ ImagePromptDir(2) \in dirs
    /\ ImagePromptDir(1) \notin dirs
    /\ PairEvents("generate", 1, 2) # {}
    /\ PairEvents("generate", 1, 1) = {}

-----------------------------------------------------------------------------
(* The order of the generation calls (Spec).                               *)

\* pair a comes before pair b in lexicographic (model index, prompt index)
\* order
PairBefore(a, b) == a[1] < b[1] \/ (a[1] = b[1] /\ a[2] < b[2])

PairOf(i) == <<log[i].mi, log[i].pi>>

\* the filter of the running driver lets prompt p through to a generation
\* call
AdmittedPrompt(p) ==
    IF driver = "llm"
    THEN LlmClassify(filter_arg, prompts[p]) \in {"completion", "chat"}
    ELSE Admitted(filter_arg, prompts[p])

\* C24: both drivers issue their generation calls in lexicographic (model
\* index, prompt index) order: when a call is made, every admitted pair
\* before it in that order has been generated and persisted, and every file
\* of a pair is written after its call and before the next call.
C24_LexicographicOrder ==
    LET calls == Events("generate")
        writes == ResultWrites
    IN  /\ \A i, j \in calls : i < j => PairBefore(PairOf(i), PairOf(j))
        /\ \A j \in calls :
              \A m \in 1..log[j].mi, p \in 1..Len(prompts) :
                  (PairBefore(<<m, p>>, PairOf(j)) /\ AdmittedPrompt(p)) =>
                      /\ \E i \in calls : i < j /\ PairOf(i) = <<m, p>> /\ log[i].ok
                      /\ \E w \in writes : w < j /\ PairOf(w) = <<m, p>>
        /\ \A w \in writes :
              /\ \E i \in calls : i < w /\ PairOf(i) = PairOf(w)
              /\ \A j \in calls : PairBefore(PairOf(w), PairOf(j)) => w < j

\* a completed run of two models over two admitted prompts: four calls, the
\* third being model 2 with prompt 1
C24_Witness ==
    /\ pc = "done" /\ Len(models) = 2 /\ Len(prompts) = 2
    /\ Cardinality(Events("generate")) = 4
    /\ \E i, j, k \in Events("generate") :
          /\ i < j /\ j < k
          /\ PairOf(i) = <<1, 1>> /\ PairOf(j) = <<1, 2>> /\ PairOf(k) = <<2, 1>>

-----------------------------------------------------------------------------
(* The identity of a run (Spec).                                           *)

\* the JSON documents written so far: result records, image metadata and
\* the summary
JsonWrites == {i \in Events("write") : IsJsonPath(log[i].path)}

\* what a state shows of the identity of its run
IdentityDrawnOnce ==
    /\ Cardinality(Events("generate_run_identifiers")) <= 1
    /\ ident.some <=> Events("generate_run_identifiers") # {}
    /\ log # <<>> =>
          /\ log[1].op = "generate_run_identifiers"
          /\ log[1].detail = ident.val
          /\ FilterValid(driver, filter_arg)
    /\ ~ident.some => dirs \in InitialDirs /\ files = EmptyDict
    /\ \A i \in JsonWrites :
          /\ log[i].detail.run_id = ident.val.run_id
          /\ log[i].detail.created_at = ident.val.created_at
    /\ \A f \in DOMAIN files :
          IsJsonPath(f) =>
              /\ files[f].run_id = ident.val.run_id
              /\ files[f].created_at = ident.val.created_at
    /\ result.some => result.val = ident.val.run_id

\* C25: the run identity is drawn exactly once per driver invocation, after
\* filter validation and before the run directory is created, and never
\* changes afterwards: every result record, image metadata file and summary
\* written, and the value returned, carry its run_id, and every record and
\* the summary carry its created_at.
C25_OneIdentityPerRun ==
    /\ []IdentityDrawnOnce
    /\ [][ident.some => ident' = ident]_vars

\* a returned text run that wrote a result record and the summary under the
\* identity it drew first
C25_Witness ==
    /\ driver = "llm" /\ pc = "done"
    /\ result = Some(ident.val.run_id)
    /\ log[1].op = "generate_run_identifiers"
    /\ \E i, j \in JsonWrites :
          /\ IsSummaryPath(log[j].path) /\ ~IsSummaryPath(log[i].path)
          /\ log[i].detail.run_id = log[1].detail.run_id
          /\ log[j].detail.run_id = log[1].detail.run_id

-----------------------------------------------------------------------------
(* The option maps across the pairs of a run (Spec).                       *)

\* the keys of an optional map
KeysOf(o) == IF o.some THEN DOMAIN o.val ELSE {}

\* the options of a pair of the text driver, layer over layer: prompt over
\* model over global defaults
LayeredLlmOptions(m, p) ==
    LET g == config.llm_generation_defaults
        mo == models[m].options
        po == prompts[p].options
    IN  [k \in KeysOf(g) \cup KeysOf(mo) \cup KeysOf(po) |->
            IF k \in KeysOf(po) THEN po.val[k]
            ELSE IF k \in KeysOf(mo) THEN mo.val[k]
            ELSE g.val[k]]

\* the merged options of every pair so far are those of its own three maps
NoLeakBetweenPairs ==
    /\ driver = "llm" =>
          \A i \in Events("generate") :
              log[i].detail.options = LayeredLlmOptions(log[i].mi, log[i].pi)
    /\ driver = "image" =>
          \A i \in Events("merge") :
              log[i].detail = LayeredOptions(log[i].mi, log[i].pi)

\* C26: merge_options mutates none of its argument maps and returns a fresh
\* map: no step of a driver changes the configuration, the models or the
\* prompts, and the options merged for a pair are those of the configured
\* global defaults, that model's options and that prompt's options, whatever
\* pairs came before.
C26_MergeLeavesArgumentsAlone ==
    /\ []NoLeakBetweenPairs
    /\ [][config' = config /\ models' = models /\ prompts' = prompts]_vars

\* a text run whose second pair has no seed although the first pair's prompt
\* set one, the global defaults being as configured
C26_Witness ==
    /\ driver = "llm"
    /\ config.llm_generation_defaults = Some([k \in {"temperature"} |-> 1])
    /\ \E i, j \in Events("generate") :
          /\ i < j
          /\ "seed" \in DOMAIN log[i].detail.options
          /\ "seed" \notin DOMAIN log[j].detail.options
          /\ log[j].detail.options = [k \in {"temperature"} |-> 1]

-----------------------------------------------------------------------------
(* The two files of a text result (StoreSpec).                             *)

\* the JSON result files on disk: <run>/llm/<prompt_id>/<name>__<mode>.json
LlmJsonFiles ==
    {f \in DOMAIN files :
        /\ Len(f) = Len(ResultsDir) + 4
        /\ f[Len(f) - 2] = Chars("llm")
        /\ IsJsonPath(f)}

\* markdown/<name>__<mode>.md beside the JSON file f
SiblingMarkdown(f) ==
    LET name == f[Len(f)]
        stem == SubSeq(name, 1, Len(name) - Len(Chars(".json")))
    IN  SubSeq(f, 1, Len(f) - 1) \o <<Chars("markdown"), stem \o Chars(".md")>>

\* C27: after any sequence of save_llm_result calls, whether each returned
\* normally or raised, every JSON result file under llm/<prompt_id>/ has a
\* sibling markdown file whose content is the output.text of the record the
\* JSON file stores.
C27_JsonHasMarkdownSibling ==
    \A f \in LlmJsonFiles :
        /\ SiblingMarkdown(f) \in DOMAIN files
        /\ files[SiblingMarkdown(f)] = files[f].output.text

-----------------------------------------------------------------------------
(* RaceSpec: MaxProcs processes call create_result_structure on one        *)
(* filesystem. A call is three or five system calls, and the calls of the  *)
(* processes interleave: the stat of run_path.exists(), the os.mkdir of    *)
(* run_path.mkdir(parents=True) and, when that finds no parent, the        *)
(* creation of the parent and a second os.mkdir. args holds for each       *)
(* process its argument and the statement it is at, result its outcome.    *)

MaxProcs == 2

Procs == 1..MaxProcs

RaceInit ==
    /\ DriverIdle
    /\ dirs \in InitialDirs \cup {{Root, ResultsDir}}
    /\ files = EmptyDict
    /\ error = "none"
    /\ log = <<>>
    /\ args \in [Procs -> [run_dir_name : {id.run_dir_name : id \in Identities},
                           at : {"exists"}]]
    /\ result = [p \in Procs |-> [outcome |-> "running", at |-> "exists"]]

\* process p moves to statement at
Goto(p, at) ==
    /\ args' = [args EXCEPT ![p].at = at]
    /\ UNCHANGED result

\* the call of process p ends with outcome (a return or an exception)
Finish(p, outcome) ==
    /\ result' = [result EXCEPT ![p] = [outcome |-> outcome, at |-> args[p].at]]
    /\ args' = [args EXCEPT ![p].at = "finished"]

\* if run_path.exists(): raise FileExistsError
RaceExists(p) ==
    /\ args[p].at = "exists"
    /\ IF PathExists(Fs(dirs, files), Append(ResultsDir, args[p].run_dir_name))
       THEN Finish(p, "FileExistsError")
       ELSE Goto(p, "mkdir")
    /\ UNCHANGED <<fsVars, driverVars, error, log>>

\* mutant of OsMkdir: an existing directory is accepted, as with exist_ok=True
OsMkdir_ExistOk(fs, path) == Mkdir(fs, path, FALSE, TRUE)

\* os.mkdir(path), the system call under run_path.mkdir(parents=True): it
\* fails on an existing path and on a missing parent
OsMkdir(fs, path) == Mkdir(fs, path, FALSE, FALSE)

\* run_path.mkdir(parents=True): os.mkdir of the run directory, at the
\* first attempt and after the parents were made
RaceMkdir(p) ==
    /\ args[p].at \in {"mkdir", "retry"}
    /\ LET fs2 == OsMkdir(Fs(dirs, files), Append(ResultsDir, args[p].run_dir_name))
       IN  IF fs2.err = "none"
           THEN dirs' = fs2.dirs /\ Finish(p, "returned")
           ELSE IF fs2.err = "FileNotFoundError" /\ args[p].at = "mkdir"
           THEN Goto(p, "parents") /\ UNCHANGED dirs
           ELSE Finish(p, fs2.err) /\ UNCHANGED dirs
    /\ UNCHANGED <<files, driverVars, error, log>>

\* self.parent.mkdir(parents=True, exist_ok=True)
RaceParents(p) ==
    /\ args[p].at = "parents"
    /\ LET fs2 == Mkdir(Fs(dirs, files), ResultsDir, TRUE, TRUE)
       IN  dirs' = fs2.dirs
    /\ Goto(p, "retry")
    /\ UNCHANGED <<files, driverVars, error, log>>

RaceNext == \E p \in Procs : RaceExists(p) \/ RaceMkdir(p) \/ RaceParents(p)

RaceSpec == RaceInit /\ [][RaceNext]_vars

\* the calls with the argument of process p that have returned
Owners(p) ==
    {q \in Procs : /\ args[q].run_dir_name = args[p].run_dir_name
                   /\ result[q].outcome = "returned"}

\* C28: when processes call create_result_structure concurrently with the
\* same run_dir_name and results_dir, in every interleaving of their
\* existence checks and directory creations at most one call returns and
\* every other call raises FileExistsError.
C28_OneOwnerPerRunDirectory ==
    \A p \in Procs :
        /\ Cardinality(Owners(p)) <= 1
        /\ result[p].outcome \in {"running", "returned", "FileExistsError"}
        /\ result[p].outcome = "returned" =>
              Append(ResultsDir, args[p].run_dir_name) \in dirs

\* both processes passed the existence check of the same absent directory;
\* one created it and the other was refused by os.mkdir
C28_Witness ==
    /\ args[1].run_dir_name = args[2].run_dir_name
    /\ result[1] = [outcome |-> "returned", at |-> "mkdir"]
    /\ result[2] = [outcome |-> "FileExistsError", at |-> "mkdir"]

-----------------------------------------------------------------------------
(* The loader and the text driver together (Spec).                         *)

\* an option map as the mapping of a YAML document
OptionsDocument(o) == YDict([k \in DOMAIN o |-> Some(YInt(DecimalChars(o[k])))])

\* the prompts file a list of prompts of the text driver is loaded from
PromptsDocument(prompts_) ==
    YList([i \in 1..Len(prompts_) |->
        LET q == prompts_[i]
        IN  PromptEntry(
                Some(YStr(q.id)),
                IF q.prompt.some THEN Some(YStr(Chars(q.prompt.val))) ELSE None,
                IF q.messages.some
                THEN Some(YList([j \in 1..Len(q.messages.val) |->
                        Message(Some(YStr(Chars(q.messages.val[j].role))),
                                Some(YStr(Chars(q.messages.val[j].content))))]))
                ELSE None,
                IF q.options.some THEN Some(OptionsDocument(q.options.val)) ELSE None)])

\* the prompt_filter lets prompt p through
FilterAdmits(p) ==
    \/ filter_arg = "all"
    \/ filter_arg = "completion" /\ prompts[p].prompt.some
    \/ filter_arg = "chat" /\ prompts[p].messages.some

\* C29: for every prompt list accepted by load_llm_prompts and every valid
\* prompt_filter, run_llm_eval never raises its own 'must have either
\* prompt or messages' error, and each prompt the filter admits is
\* dispatched to exactly one of the two generation entry points.
C29_AcceptedListsAlwaysDispatch ==
    (/\ driver = "llm"
     /\ FilterValid(driver, filter_arg)
     /\ load_llm_prompts(PromptsDocument(prompts)).err = "none") =>
        /\ error # PromptError
        /\ \A i \in Events("generate") :
              /\ log[i].detail.entry \in {"generate", "chat"}
              /\ FilterAdmits(log[i].pi)
        /\ \A m \in 1..Len(models), p \in 1..Len(prompts) :
              /\ Cardinality(PairEvents("generate", m, p)) <= 1
              /\ (<<m, p>> \in PairsDone /\ FilterAdmits(p)) =>
                    Cardinality(PairEvents("generate", m, p)) = 1

\* a returned run under prompt_filter = all over an accepted list of a
\* completion-form and a chat-form prompt: one call of each entry point
C29_Witness ==
    /\ driver = "llm" /\ filter_arg = "all" /\ pc = "done"
    /\ Len(models) = 1 /\ Len(prompts) = 2
    /\ load_llm_prompts(PromptsDocument(prompts)).err = "none"
    /\ \E i \in PairEvents("generate", 1, 1) : log[i].detail.entry = "generate"
    /\ \E i \in PairEvents("generate", 1, 2) : log[i].detail.entry = "chat"

-----------------------------------------------------------------------------
(* The two normalizations side by side (NormalizeSpec).                    *)

\* C30: generate_response_completion and generate_response_chat normalize
\* identically: for two backend answers carrying the same text (under
\* 'response' and under 'message.content') and the same optional metric
\* fields, the two functions return equal output and equal metrics.
C30_SameNormalization ==
    \A i, j \in 1..Len(log) :
        /\ log[i].val.output = log[j].val.output
        /\ log[i].val.metrics = log[j].val.metrics

\* both functions were applied to answers with the same text and all the
\* metric fields, and both reported three tokens in two seconds
C30_Witness ==
    /\ Len(log) = 2
    /\ log[1].fn # log[2].fn
    /\ \A k \in DOMAIN args.fields : args.fields[k].some
    /\ \A i \in 1..2 :
          /\ log[i].val.output.text = args.text
          /\ log[i].val.metrics.total_tokens = Some(3)
          /\ log[i].val.metrics.output_seconds = Some(2000)

====
